---- MODULE Spec2Model ----
(***************************************************************************)
(* Host snapshot collector (package hostsnap): the double-buffered host    *)
(* index (Cache / HostCache / HostInst), its refresh goroutine             *)
(* (fetchDBLoop / fetch), host resolution (getHostByVal / getIPS /         *)
(* getCache / setCache) and the change detector (needToUpdate).            *)
(*                                                                         *)
(* Pointers are modelled as references into a heap:                        *)
(*   - a *HostCache is an index into the sequence gens (0 is the nil       *)
(*     pointer), gens[g] being that HostCache's data map;                  *)
(*   - a *HostInst is a tuple naming the allocation site, <<"fetch", g, i>> *)
(*     for the record fetch() built for generation g from row i and        *)
(*     <<"db", w>> for the record worker w built after a cache miss;       *)
(*     <<>> is the nil pointer; insts maps every allocated *HostInst to    *)
(*     its data map.                                                       *)
(* Go maps are functions whose domain is the set of keys present.          *)
(***************************************************************************)
EXTENDS Integers, Sequences, FiniteSets, TLC

(***************************************************************************)
(* Bounds of the model.                                                    *)
(***************************************************************************)
\* rows the backing host table can hold
MaxHosts == 2
\* periodic refreshes (ticks of fetchDBInterval) the refresh goroutine runs
MaxRefresh == 1

\* the message workers: each is one goroutine making one call of Analyze
Workers == {1, 2}

\* page size of fetch(), `const limit = uint64(1000)`, scaled down so that
\* a table of MaxHosts rows spans several pages
limit == 2

\* defaultChangeRangePercent
defaultChangeRangePercent == 10

\* defaultRateLimiterBurst
defaultRateLimiterBurst == 100

\* burst capacities of the rate limiter configured as snapConfig.Burst: the
\* smallest value getRateLimiter lets through, and one token for each worker
Bursts == {1, 2}

\* the nil *HostCache and the nil *HostInst
NilCache == 0
NilInst == <<>>

(***************************************************************************)
(* Go maps.                                                                *)
(***************************************************************************)
EmptyMap == <<>>

\* m[k] of a Go map whose values are *HostInst: the zero value when absent
MapGet(m, k) == IF k \in DOMAIN m THEN m[k] ELSE NilInst

\* m[k] = v
MapSet(m, k, v) == [x \in (DOMAIN m) \cup {k} |-> IF x = k THEN v ELSE m[x]]

(***************************************************************************)
(* interface{} values: a record of the dynamic type t and the value, v for *)
(* a number (a whole number), s for a string; the nil interface has type   *)
(* "nil".                                                                  *)
(***************************************************************************)
I64(n) == [t |-> "int64", v |-> n, s |-> ""]
U64(n) == [t |-> "uint64", v |-> n, s |-> ""]
F64(n) == [t |-> "float64", v |-> n, s |-> ""]
Str(x) == [t |-> "string", v |-> 0, s |-> x]
NilVal == [t |-> "nil", v |-> 0, s |-> ""]

\* a == b of two interface{} values: the same dynamic type and equal values
IfaceEq(a, b) == a.t = b.t /\ a.v = b.v /\ a.s = b.s

\* HostInst.get: h.data[key], the nil interface when the key is absent
InstGet(data, key) == IF key \in DOMAIN data THEN data[key] ELSE NilVal

(***************************************************************************)
(* The backing host table and the messages.                                *)
(***************************************************************************)
IPOf(i) == "10.0.0." \o ToString(i)

\* the i-th row of the host table as the store decodes it into a
\* map[string]interface{}: host id i, cloud id 0, inner ip 10.0.0.i, 4 cores
\* and 100 MiB of memory
Row(i) ==
    [bk_host_id |-> I64(i), bk_cloud_id |-> I64(0), bk_host_innerip |-> Str(IPOf(i)),
     bk_cpu |-> I64(4), bk_mem |-> I64(100)]

\* fmt.Sprint of an interface{} value
Sprint(a) ==
    IF a.t = "string" THEN a.s
    ELSE IF a.t = "nil" THEN "<nil>"
    ELSE ToString(a.v)

\* cloudid + "::" + innerip
CacheKey(cloudid, ip) == cloudid \o "::" \o ip

\* addresses starting with "127.0.0."
Loopback == {"127.0.0.1", "127.0.0.53"}

HasLoopbackPrefix(ip) == ip \in Loopback

\* An interface address is the string ip \o mask; strings.Split(addr, "/")[0]
\* is its ip part.
SplitSlash0(addr) == addr.ip

\* The messages the workers receive: the top-level ip (the empty string
\* when the field is missing), the cloud id, and the addresses of
\* data.net.interface.#.addrs.#.addr in reported order.
Messages ==
    { [cloudid |-> "0", ip |-> IPOf(1), addrs |-> <<[ip |-> IPOf(2), mask |-> "/24"]>>],
      [cloudid |-> "0", ip |-> IPOf(3),
       addrs |-> <<[ip |-> "127.0.0.1", mask |-> "/8"], [ip |-> IPOf(1), mask |-> "/24"]>>],
      [cloudid |-> "0", ip |-> "127.0.0.1", addrs |-> <<[ip |-> IPOf(2), mask |-> ""]>>],
      [cloudid |-> "0", ip |-> "<nil>", addrs |-> <<>>],
      [cloudid |-> "x", ip |-> IPOf(1), addrs |-> <<>>],
      [cloudid |-> "0", ip |-> "127.0.0.1", addrs |-> <<[ip |-> "127.0.0.53", mask |-> "/8"]>>] }

RECURSIVE ifaceIPS(_)
ifaceIPS(addrs) ==
    IF addrs = <<>> THEN <<>>
    ELSE LET ip == SplitSlash0(Head(addrs))
         IN  IF HasLoopbackPrefix(ip) THEN ifaceIPS(Tail(addrs))
             ELSE <<ip>> \o ifaceIPS(Tail(addrs))

getIPS(val) ==
    (IF HasLoopbackPrefix(val.ip) THEN <<>> ELSE <<val.ip>>) \o ifaceIPS(val.addrs)

\* strconv.Atoi of a cloud id string: <<ok, value>>
Atoi(s) ==
    IF s \in {"0", "00"} THEN <<TRUE, 0>> ELSE IF s = "1" THEN <<TRUE, 1>> ELSE <<FALSE, 0>>

(***************************************************************************)
(* State.                                                                  *)
(***************************************************************************)
VARIABLES
    db,         \* the backing host table: a sequence of rows
    cache,      \* h.cache.cache: [BOOLEAN -> *HostCache]
    flag,       \* h.cache.flag
    cachelock,  \* h.cachelock: "unlocked" or the goroutine holding the write lock
    gens,       \* the HostCache objects allocated so far: gens[g] is g's data map
    insts,      \* the HostInst objects allocated so far: insts[r] is r's data map
    rpc,        \* position of the fetchDBLoop goroutine
    hostcache,  \* fetch(): the HostCache under construction (0 outside fetch)
    start,      \* fetch(): the scan offset
    ticks,      \* periodic refreshes started so far
    pc,         \* position of each worker
    mesg,       \* the message each worker is processing
    ips,        \* getHostByVal: the candidate ips
    idx,        \* getHostByVal: index of the candidate being probed
    probed,     \* getHostByVal: the *HostCache the last getCache() returned
    host,       \* getHostByVal: the *HostInst found (or built)
    changeRangePercent, \* h.changeRangePercent
    src,        \* needToUpdate: the candidate field map
    toCompare,  \* needToUpdate: the data map of the HostInst compared against
    changed,    \* needToUpdate: the value returned
    npc,        \* position of the needToUpdate call
    tele,       \* the telemetry (the data object) of each worker's message
    tokens,     \* h.rateLimit: the tokens in the bucket
    setter,     \* Analyze: the candidate field map parseSetter returned
    calls,      \* the calls each worker has issued to external services
    ret,        \* what each worker's Analyze call returned
    preData,    \* Analyze: host.clone()
    curData,    \* Analyze: the data GetHostByID answered with
    bizID,      \* Analyze: the business id taken from the module relation
    auditLog,   \* Analyze: the metadata.SaveAuditLogParams built
    redis,      \* the snapshot cache behind h.redisCli: key -> value and expiry
    snapConfig, \* options.HostSnap: the strings QPS, Burst and ChangeRangePercent
    qps,        \* h.rateLimit: the refill rate it was built with
    burst,      \* h.rateLimit: the capacity it was built with
    answers,    \* h.rateLimit: the answers of TryAccept since time last elapsed
    startTokens, \* h.rateLimit: the tokens in the bucket when time last elapsed
    pending,    \* copyVal: the keys of a the loop of each worker has still to set
    svc         \* the request a handler of the service layer is serving

cacheVars == <<cache, flag, cachelock, gens>>
refreshVars == <<rpc, hostcache, start, ticks>>
workerVars == <<pc, mesg, ips, idx, probed, host>>
detectVars == <<changeRangePercent, src, toCompare, changed, npc>>
pipeVars == <<tele, tokens, setter, calls, ret, preData, curData, bizID, auditLog, redis>>
limiterVars == <<snapConfig, qps, burst, answers, startTokens>>
vars == <<db, insts, cacheVars, refreshVars, workerVars, detectVars, pipeVars, limiterVars, pending, svc>>

\* an unrecovered panic (nil pointer dereference) ends the whole process
Crashed == \E w \in Workers : pc[w] = "panic"

(***************************************************************************)
(* The configuration and what NewHostSnap builds from it. A configured     *)
(* string is the sequence of its characters.                               *)
(***************************************************************************)
\* defaultRateLimiterQPS
defaultRateLimiterQPS == 40

\* minChangeRangePercent
minChangeRangePercent == 1

Digits == <<"0", "1", "2", "3", "4", "5", "6", "7", "8", "9">>

IsDigit(c) == \E d \in DOMAIN Digits : Digits[d] = c

DigitVal(c) == (CHOOSE d \in DOMAIN Digits : Digits[d] = c) - 1

\* the decimal value of a sequence of digits, most significant first
RECURSIVE DecimalVal(_, _)
DecimalVal(cs, acc) ==
    IF cs = <<>> THEN acc ELSE DecimalVal(Tail(cs), acc * 10 + DigitVal(Head(cs)))

\* strconv.Atoi(s): <<err == nil, value>>. An optional sign and one or more
\* decimal digits parse; everything else is a syntax error with value 0.
StrconvAtoi(cs) ==
    LET signed == cs # <<>> /\ Head(cs) \in {"+", "-"}
        ds == IF signed THEN Tail(cs) ELSE cs
    IN  IF ds = <<>> \/ \E i \in DOMAIN ds : ~IsDigit(ds[i])
        THEN <<FALSE, 0>>
        ELSE <<TRUE, IF signed /\ Head(cs) = "-" THEN 0 - DecimalVal(ds, 0)
                     ELSE DecimalVal(ds, 0)>>

\* getConfigIntVal with the bug of leaving out the test against the minimum
getConfigIntValNoFloor(configVal, configName, defaultValue, minValue) ==
    LET parsed == StrconvAtoi(configVal)
    IN  IF ~parsed[1] THEN defaultValue ELSE parsed[2]

\* getConfigIntVal
getConfigIntVal(configVal, configName, defaultValue, minValue) ==
    LET parsed == StrconvAtoi(configVal)
        configIntVal == IF ~parsed[1] THEN defaultValue ELSE parsed[2]
    IN  IF configIntVal < minValue THEN minValue ELSE configIntVal

\* getRateLimiter with the bug of passing the two values in the wrong order
getRateLimiterSwapped(qpsStr, burstStr) ==
    LET qpsVal == getConfigIntVal(qpsStr, "hostsnap.qps", defaultRateLimiterQPS, 1)
        burstVal == getConfigIntVal(burstStr, "hostsnap.burst", defaultRateLimiterBurst, 1)
    IN  [qps |-> burstVal, burst |-> qpsVal, tokens |-> qpsVal]

\* getRateLimiter: flowctrl.NewRateLimiter(qpsVal, burstVal), a bucket of
\* capacity burstVal that starts full
getRateLimiter(qpsStr, burstStr) ==
    LET qpsVal == getConfigIntVal(qpsStr, "hostsnap.qps", defaultRateLimiterQPS, 1)
        burstVal == getConfigIntVal(burstStr, "hostsnap.burst", defaultRateLimiterBurst, 1)
    IN  [qps |-> qpsVal, burst |-> burstVal, tokens |-> burstVal]

\* a configuration that sets nothing
NoConfig == [QPS |-> <<>>, Burst |-> <<>>, ChangeRangePercent |-> <<>>]

\* the limiter NewHostSnap has built from the configuration conf
Constructed(conf) ==
    /\ snapConfig = conf
    /\ qps = getRateLimiter(conf.QPS, conf.Burst).qps
    /\ burst = getRateLimiter(conf.QPS, conf.Burst).burst
    /\ tokens = getRateLimiter(conf.QPS, conf.Burst).tokens
    /\ answers = <<>>
    /\ startTokens = tokens

(***************************************************************************)
(* NewHostSnap: the cache holds an empty slot map and flag false, and the  *)
(* refresh goroutine has been started but has not run yet.                 *)
(***************************************************************************)
InitCache ==
    /\ cache = [b \in BOOLEAN |-> NilCache]
    /\ flag = FALSE
    /\ cachelock = "unlocked"
    /\ gens = <<>>
    /\ insts = <<>>
    /\ rpc = "spawned"
    /\ hostcache = NilCache
    /\ start = 0
    /\ ticks = 0

InitWorkers ==
    /\ pc = [w \in Workers |-> "idle"]
    /\ mesg = [w \in Workers |-> CHOOSE m \in Messages : TRUE]
    /\ ips = [w \in Workers |-> <<>>]
    /\ idx = [w \in Workers |-> 1]
    /\ probed = [w \in Workers |-> NilCache]
    /\ host = [w \in Workers |-> NilInst]

\* no needToUpdate call is under way; the percentage is the default
InitDetect ==
    /\ changeRangePercent = defaultChangeRangePercent
    /\ src = EmptyMap
    /\ toCompare = EmptyMap
    /\ changed = FALSE
    /\ npc = "idle"

\* the telemetry of a message that reports nothing
NoTelemetry == [cores |-> <<>>, memtotal |-> 0, hostname |-> ""]

\* the zero metadata.SaveAuditLogParams
NoAudit ==
    [ID |-> 0, Model |-> "", OpType |-> "", PreData |-> EmptyMap, CurData |-> EmptyMap,
     ExtKey |-> "", BizID |-> 0]

\* the service layer serves no request
NoRequest == [handler |-> "", at |-> "idle"]

\* no Analyze call has gone past host resolution
PipelineIdle ==
    /\ setter = [w \in Workers |-> EmptyMap]
    /\ calls = [w \in Workers |-> <<>>]
    /\ ret = [w \in Workers |-> "running"]
    /\ preData = [w \in Workers |-> EmptyMap]
    /\ curData = [w \in Workers |-> EmptyMap]
    /\ bizID = [w \in Workers |-> 0]
    /\ auditLog = [w \in Workers |-> NoAudit]
    /\ redis = EmptyMap
    /\ pending = [w \in Workers |-> {}]

InitPipeline == PipelineIdle /\ svc = NoRequest

Init ==
    /\ \E n \in 0..MaxHosts : db = [i \in 1..n |-> Row(i)]
    /\ InitCache
    /\ InitWorkers
    /\ InitDetect
    /\ tele = [w \in Workers |-> NoTelemetry]
    /\ Constructed(NoConfig)
    /\ InitPipeline

(***************************************************************************)
(* fetchDBLoop and fetch: the refresh goroutine.                           *)
(***************************************************************************)
\* fetchDBLoop, startup: h.cachelock.Lock()
StartupLock ==
    /\ ~Crashed
    /\ rpc = "spawned"
    /\ cachelock = "unlocked"
    /\ cachelock' = "fetchDBLoop"
    /\ rpc' = "fetchBegin"
    /\ UNCHANGED <<pending, svc, limiterVars, db, insts, detectVars, pipeVars, cache, flag, gens, hostcache, start, ticks, workerVars>>

\* FetchBegin with the bug of filling the active slot in place: the new
\* HostCache is published before the scan
FetchBeginInPlace ==
    /\ ~Crashed
    /\ rpc = "fetchBegin"
    /\ gens' = Append(gens, EmptyMap)
    /\ hostcache' = Len(gens) + 1
    /\ cache' = [cache EXCEPT ![flag] = Len(gens) + 1]
    /\ start' = 0
    /\ rpc' = "fetchPage"
    /\ UNCHANGED <<pending, svc, limiterVars, db, insts, detectVars, pipeVars, flag, cachelock, ticks, workerVars>>

\* fetch: hostcache := &HostCache{data: map[string]*HostInst{}}; start = 0
FetchBegin ==
    /\ ~Crashed
    /\ rpc = "fetchBegin"
    /\ gens' = Append(gens, EmptyMap)
    /\ hostcache' = Len(gens) + 1
    /\ start' = 0
    /\ rpc' = "fetchPage"
    /\ UNCHANGED <<pending, svc, limiterVars, db, insts, detectVars, pipeVars, cache, flag, cachelock, ticks, workerVars>>

\* Page with the bug of starting one row too far
PageSkipping(table, from) ==
    SubSeq(table, from + 2, IF from + limit < Len(table) THEN from + limit ELSE Len(table))

\* the rows Find(nil).Start(start).Limit(limit) selects
Page(table, from) ==
    SubSeq(table, from + 1, IF from + limit < Len(table) THEN from + limit ELSE Len(table))

\* hostcache.data[cloudid+"::"+innerip] = &HostInst{data: result[index]} for
\* every row of result; the row at result[j] is row from + j of the table
RECURSIVE StoreRows(_, _, _, _)
StoreRows(data, g, result, from) ==
    IF result = <<>> THEN data
    ELSE LET row == Head(result)
             key == CacheKey(Sprint(InstGet(row, "bk_cloud_id")),
                             Sprint(InstGet(row, "bk_host_innerip")))
         IN  StoreRows(MapSet(data, key, <<"fetch", g, from + 1>>), g, Tail(result), from + 1)

\* &HostInst{data: result[index]} for every row of result
AllocRows(heap, g, result, from) ==
    LET new == {<<"fetch", g, from + j>> : j \in 1..Len(result)}
    IN  [r \in (DOMAIN heap) \cup new |-> IF r \in new THEN result[r[3] - from] ELSE heap[r]]

\* FetchRows with the bug of giving up the rows read so far when a query fails
FetchRowsDropping(n) ==
    /\ ~Crashed
    /\ rpc = "fetchPage"
    /\ LET result == SubSeq(Page(db, start), 1, n)
       IN  /\ gens' = [gens EXCEPT ![hostcache] =
                         IF n < Len(Page(db, start)) THEN EmptyMap
                         ELSE StoreRows(@, hostcache, result, start)]
           /\ insts' = AllocRows(insts, hostcache, result, start)
           /\ IF Len(result) < limit
              THEN /\ rpc' = "fetchReturn"
                   /\ start' = start
              ELSE /\ rpc' = "fetchPage"
                   /\ start' = start + limit
    /\ UNCHANGED <<pending, svc, limiterVars, db, detectVars, pipeVars, cache, flag, cachelock, hostcache, ticks, workerVars>>

\* fetch: one iteration of the scan loop, the query leaving the first n rows
\* of the page in result
FetchRows(n) ==
    /\ ~Crashed
    /\ rpc = "fetchPage"
    /\ LET result == SubSeq(Page(db, start), 1, n)
       IN  /\ gens' = [gens EXCEPT ![hostcache] = StoreRows(@, hostcache, result, start)]
           /\ insts' = AllocRows(insts, hostcache, result, start)
           /\ IF Len(result) < limit
              THEN /\ rpc' = "fetchReturn"
                   /\ start' = start
              ELSE /\ rpc' = "fetchPage"
                   /\ start' = start + limit
    /\ UNCHANGED <<pending, svc, limiterVars, db, detectVars, pipeVars, cache, flag, cachelock, hostcache, ticks, workerVars>>

\* fetch: one iteration of the scan loop. A failed query is logged only; it
\* leaves in result the rows decoded before the failure (n < Len(page)).
FetchPage == \E n \in 0..Len(Page(db, start)) : FetchRows(n)

\* fetch: one iteration of the scan loop whose query succeeds
FetchPageAll == \E n \in {Len(Page(db, start))} : FetchRows(n)

\* fetchDBLoop, startup: h.cache.cache[h.cache.flag] = h.fetch()
StartupInstall ==
    /\ ~Crashed
    /\ rpc = "fetchReturn"
    /\ ticks = 0
    /\ cache' = [cache EXCEPT ![flag] = hostcache]
    /\ hostcache' = NilCache
    /\ rpc' = "startupUnlock"
    /\ UNCHANGED <<pending, svc, limiterVars, db, insts, detectVars, pipeVars, flag, cachelock, gens, start, ticks, workerVars>>

\* fetchDBLoop, startup: h.cachelock.Unlock()
StartupUnlock ==
    /\ ~Crashed
    /\ rpc = "startupUnlock"
    /\ cachelock' = "unlocked"
    /\ rpc' = "tick"
    /\ UNCHANGED <<pending, svc, limiterVars, db, insts, detectVars, pipeVars, cache, flag, gens, hostcache, start, ticks, workerVars>>

\* Tick with the bug of taking the write lock before the scan, as the
\* startup does
TickLocked ==
    /\ ~Crashed
    /\ rpc = "tick"
    /\ ticks < MaxRefresh
    /\ cachelock = "unlocked"
    /\ cachelock' = "fetchDBLoop"
    /\ ticks' = ticks + 1
    /\ rpc' = "fetchBegin"
    /\ UNCHANGED <<pending, svc, limiterVars, db, insts, detectVars, pipeVars, cache, flag, gens, hostcache, start, workerVars>>

\* fetchDBLoop: for range time.Tick(fetchDBInterval) { cache := h.fetch() ...
Tick ==
    /\ ~Crashed
    /\ rpc = "tick"
    /\ ticks < MaxRefresh
    /\ ticks' = ticks + 1
    /\ rpc' = "fetchBegin"
    /\ UNCHANGED <<pending, svc, limiterVars, db, insts, detectVars, pipeVars, cache, flag, cachelock, gens, hostcache, start, workerVars>>

\* fetchDBLoop, periodic: h.cachelock.Lock()
PeriodicLock ==
    /\ ~Crashed
    /\ rpc = "fetchReturn"
    /\ ticks > 0
    /\ cachelock = "unlocked"
    /\ cachelock' = "fetchDBLoop"
    /\ rpc' = "writeSlot"
    /\ UNCHANGED <<pending, svc, limiterVars, db, insts, detectVars, pipeVars, cache, flag, gens, hostcache, start, ticks, workerVars>>

\* WriteSlot with the bug of overwriting the slot selected for reads
WriteSlotActive ==
    /\ ~Crashed
    /\ rpc = "writeSlot"
    /\ cache' = [cache EXCEPT ![flag] = hostcache]
    /\ rpc' = "flipFlag"
    /\ UNCHANGED <<pending, svc, limiterVars, db, insts, detectVars, pipeVars, flag, cachelock, gens, hostcache, start, ticks, workerVars>>

\* fetchDBLoop, periodic: h.cache.cache[!h.cache.flag] = cache
WriteSlot ==
    /\ ~Crashed
    /\ rpc = "writeSlot"
    /\ cache' = [cache EXCEPT ![~flag] = hostcache]
    /\ rpc' = "flipFlag"
    /\ UNCHANGED <<pending, svc, limiterVars, db, insts, detectVars, pipeVars, flag, cachelock, gens, hostcache, start, ticks, workerVars>>

\* FlipFlag with the bug of leaving the selector as it is
FlipFlagForgotten ==
    /\ ~Crashed
    /\ rpc = "flipFlag"
    /\ flag' = flag
    /\ rpc' = "unlock"
    /\ UNCHANGED <<pending, svc, limiterVars, db, insts, detectVars, pipeVars, cache, cachelock, gens, hostcache, start, ticks, workerVars>>

\* fetchDBLoop, periodic: h.cache.flag = !h.cache.flag
FlipFlag ==
    /\ ~Crashed
    /\ rpc = "flipFlag"
    /\ flag' = ~flag
    /\ rpc' = "unlock"
    /\ UNCHANGED <<pending, svc, limiterVars, db, insts, detectVars, pipeVars, cache, cachelock, gens, hostcache, start, ticks, workerVars>>

\* fetchDBLoop, periodic: h.cachelock.Unlock()
PeriodicUnlock ==
    /\ ~Crashed
    /\ rpc = "unlock"
    /\ cachelock' = "unlocked"
    /\ hostcache' = NilCache
    /\ rpc' = "tick"
    /\ UNCHANGED <<pending, svc, limiterVars, db, insts, detectVars, pipeVars, cache, flag, gens, start, ticks, workerVars>>

(***************************************************************************)
(* Analyze / getHostByVal: the message workers.                            *)
(***************************************************************************)
\* Analyze(mesg) up to the call of getHostByVal: ips := getIPS(val)
Analyze(w) ==
    /\ ~Crashed
    /\ pc[w] = "idle"
    /\ \E m \in Messages :
         /\ mesg' = [mesg EXCEPT ![w] = m]
         /\ ips' = [ips EXCEPT ![w] = getIPS(m)]
         /\ pc' = [pc EXCEPT ![w] = IF Len(getIPS(m)) > 0 THEN "getCache" ELSE "notfound"]
    /\ idx' = [idx EXCEPT ![w] = 1]
    /\ probed' = [probed EXCEPT ![w] = NilCache]
    /\ host' = [host EXCEPT ![w] = NilInst]
    /\ UNCHANGED <<pending, svc, limiterVars, db, insts, detectVars, pipeVars, cacheVars, refreshVars>>

\* getCache: RLock; return h.cache.cache[h.cache.flag]; RUnlock.
\* The read lock is not granted while the write lock is held.
getCache(w) ==
    /\ ~Crashed
    /\ pc[w] = "getCache"
    /\ cachelock = "unlocked"
    /\ probed' = [probed EXCEPT ![w] = cache[flag]]
    /\ pc' = [pc EXCEPT ![w] = "get"]
    /\ UNCHANGED <<pending, svc, limiterVars, db, insts, detectVars, pipeVars, cacheVars, refreshVars, mesg, ips, idx, host>>

\* get with the bug of going on to the later candidates after a hit: the
\* record of the last key that hits is returned
getLastHit(w) ==
    /\ ~Crashed
    /\ pc[w] = "get"
    /\ IF probed[w] = NilCache
       THEN /\ pc' = [pc EXCEPT ![w] = "panic"]
            /\ UNCHANGED <<idx, host>>
       ELSE LET found == MapGet(gens[probed[w]], CacheKey(mesg[w].cloudid, ips[w][idx[w]]))
            IN  /\ host' = [host EXCEPT ![w] = IF found # NilInst THEN found ELSE @]
                /\ IF idx[w] < Len(ips[w])
                   THEN /\ idx' = [idx EXCEPT ![w] = @ + 1]
                        /\ pc' = [pc EXCEPT ![w] = "getCache"]
                   ELSE IF host'[w] # NilInst
                   THEN /\ pc' = [pc EXCEPT ![w] = "resolved"]
                        /\ UNCHANGED idx
                   ELSE /\ idx' = [idx EXCEPT ![w] = @ + 1]
                        /\ pc' = [pc EXCEPT ![w] = "find"]
    /\ UNCHANGED <<pending, svc, limiterVars, db, insts, detectVars, pipeVars, cacheVars, refreshVars, mesg, ips, probed>>

\* HostCache.get(cloudid + "::" + ip) on the cache getCache returned, and the
\* loop over ips around it. The receiver's lock is taken first: on a nil
\* *HostCache that is a nil pointer dereference.
get(w) ==
    /\ ~Crashed
    /\ pc[w] = "get"
    /\ IF probed[w] = NilCache
       THEN /\ pc' = [pc EXCEPT ![w] = "panic"]
            /\ UNCHANGED <<idx, host>>
       ELSE LET found == MapGet(gens[probed[w]], CacheKey(mesg[w].cloudid, ips[w][idx[w]]))
            IN  IF found # NilInst
                THEN /\ host' = [host EXCEPT ![w] = found]
                     /\ pc' = [pc EXCEPT ![w] = "resolved"]
                     /\ UNCHANGED idx
                ELSE /\ idx' = [idx EXCEPT ![w] = @ + 1]
                     /\ pc' = [pc EXCEPT ![w] =
                                 IF idx[w] < Len(ips[w]) THEN "getCache" ELSE "find"]
                     /\ UNCHANGED host
    /\ UNCHANGED <<pending, svc, limiterVars, db, insts, detectVars, pipeVars, cacheVars, refreshVars, mesg, ips, probed>>

\* the rows of the table with the given cloud id and an inner ip among ips,
\* in table order
RECURSIVE Matching(_, _, _)
Matching(table, cloudID, ipset) ==
    IF table = <<>> THEN <<>>
    ELSE LET row == Head(table)
             rest == Matching(Tail(table), cloudID, ipset)
             cloud == InstGet(row, "bk_cloud_id")
             innerip == InstGet(row, "bk_host_innerip")
         IN  IF /\ cloud.t \in {"int64", "uint64", "float64"} /\ cloud.v = cloudID
                /\ innerip.t = "string" /\ innerip.s \in ipset
             THEN <<row>> \o rest ELSE rest

\* the elements of a sequence
Range(s) == {s[i] : i \in DOMAIN s}

\* inst := &HostInst{data: row}
Alloc(heap, r, row) == [x \in (DOMAIN heap) \cup {r} |-> IF x = r THEN row ELSE heap[x]]

\* getHostByVal after the cache missed every candidate: strconv.Atoi(cloudid),
\* the filtered query of the host table, and inst := &HostInst{...} for the
\* first row returned. A failed query is logged only; it leaves in result the
\* rows decoded before the failure (n < Len(rows)).
find(w) ==
    /\ ~Crashed
    /\ pc[w] = "find"
    /\ LET cloudIDInt == Atoi(mesg[w].cloudid)
       IN  IF ~cloudIDInt[1]
           THEN /\ pc' = [pc EXCEPT ![w] = "notfound"]
                /\ UNCHANGED <<host, insts>>
           ELSE LET rows == Matching(db, cloudIDInt[2], Range(ips[w]))
                IN  \E n \in 0..Len(rows) :
                      IF n = 0
                      THEN /\ pc' = [pc EXCEPT ![w] = "notfound"]
                           /\ UNCHANGED <<host, insts>>
                      ELSE /\ host' = [host EXCEPT ![w] = <<"db", w>>]
                           /\ insts' = Alloc(insts, <<"db", w>>, rows[1])
                           /\ pc' = [pc EXCEPT ![w] = "setCache"]
    /\ UNCHANGED <<pending, svc, limiterVars, db, detectVars, pipeVars, cacheVars, refreshVars, mesg, ips, idx, probed>>

\* the key getHostByVal passes to setCache: built from the first row returned
InsertKey(w) ==
    LET row == Matching(db, Atoi(mesg[w].cloudid)[2], Range(ips[w]))[1]
    IN  CacheKey(Sprint(InstGet(row, "bk_cloud_id")), Sprint(InstGet(row, "bk_host_innerip")))

\* setCache: Lock; h.cache.cache[h.cache.flag].set(key, val); Unlock; then
\* getHostByVal returns inst. On a nil *HostCache, set dereferences nil.
setCache(w) ==
    /\ ~Crashed
    /\ pc[w] = "setCache"
    /\ cachelock = "unlocked"
    /\ IF cache[flag] = NilCache
       THEN /\ pc' = [pc EXCEPT ![w] = "panic"]
            /\ UNCHANGED gens
       ELSE /\ gens' = [gens EXCEPT ![cache[flag]] = MapSet(@, InsertKey(w), host[w])]
            /\ pc' = [pc EXCEPT ![w] = "resolved"]
    /\ UNCHANGED <<pending, svc, limiterVars, db, insts, detectVars, pipeVars, cache, flag, cachelock, refreshVars, mesg, ips, idx, probed, host>>

Next ==
    \/ StartupLock
    \/ FetchBegin
    \/ FetchPage
    \/ StartupInstall
    \/ StartupUnlock
    \/ Tick
    \/ PeriodicLock
    \/ WriteSlot
    \/ FlipFlag
    \/ PeriodicUnlock
    \/ \E w \in Workers : Analyze(w)
    \/ \E w \in Workers : getCache(w)
    \/ \E w \in Workers : get(w)
    \/ \E w \in Workers : find(w)
    \/ \E w \in Workers : setCache(w)

Spec == Init /\ [][Next]_vars

(***************************************************************************)
(* Properties of the double-buffered host index.                           *)
(***************************************************************************)
\* the HostCache fetch() is populating at the moment
Populating(g) == rpc = "fetchPage" /\ hostcache = g

\* the refresh goroutine is inside fetch(), or between fetch() and the next
\* statement of fetchDBLoop
Scanning == rpc \in {"fetchBegin", "fetchPage", "fetchReturn"}

\* C1: every HostCache a worker has obtained from getCache, and every
\* HostCache a slot holds, is an allocated HostCache whose fetch() has
\* returned: none is the one the refresh goroutine is populating.
C1_GenerationComplete ==
    /\ \A w \in Workers :
         probed[w] # NilCache => probed[w] \in 1..Len(gens) /\ ~Populating(probed[w])
    /\ \A b \in BOOLEAN :
         cache[b] # NilCache => cache[b] \in 1..Len(gens) /\ ~Populating(cache[b])

\* C1 witness: a worker probes an obtained generation while a periodic scan
\* has already stored a page into the generation under construction
C1_Witness ==
    \E w \in Workers :
        /\ pc[w] = "get"
        /\ probed[w] # NilCache
        /\ rpc = "fetchPage"
        /\ start > 0
        /\ gens[hostcache] # EmptyMap

\* C2 (as claimed): within one run of getHostByVal all candidate ips are
\* probed in one generation G, and no record is returned from a generation
\* installed during the run: a getCache() after the first either returns the
\* HostCache the previous one returned, or the probe that follows misses.
C2_SameGeneration ==
    [][\A w \in Workers :
         (pc[w] = "getCache" /\ idx[w] > 1 /\ pc'[w] = "get") =>
            \/ probed'[w] = probed[w]
            \/ MapGet(gens[probed'[w]], CacheKey(mesg[w].cloudid, ips[w][idx[w]])) = NilInst]_vars

\* the newest generation whose installation is finished: generations are
\* allocated one after the other, and hostcache names the one not yet installed
LatestInstalled == IF hostcache # NilCache THEN Len(gens) - 1 ELSE Len(gens)

\* C3: a getCache() call made when installations up to generation g are
\* finished returns g or a later generation, never a superseded one.
C3_NewReadersSeeNewest ==
    [][\A w \in Workers :
         (pc[w] = "getCache" /\ pc'[w] = "get") => probed'[w] >= LatestInstalled]_vars

\* C3 witness: after a periodic refresh was installed, a worker has obtained
\* the new generation from getCache
C3_Witness ==
    \E w \in Workers :
        /\ pc[w] = "get"
        /\ ticks > 0
        /\ rpc = "tick"
        /\ probed[w] = Len(gens)
        /\ Len(gens) > 1

\* C4 (as claimed): whenever a worker reads the active slot or is about to
\* insert into it, the slot selected by the flag holds an installed
\* generation.
C4_ActiveSlotInstalled ==
    \A w \in Workers :
        /\ pc[w] = "get" => probed[w] # NilCache
        /\ (pc[w] = "setCache" /\ cachelock = "unlocked") => cache[flag] # NilCache

\* C5 (as claimed): every scan, the startup scan included, runs with the
\* cache-wide lock free, and the write lock is held only for the slot
\* assignment and the flag flip.
C5_EveryScanWithoutLock ==
    /\ Scanning => cachelock = "unlocked"
    /\ cachelock = "fetchDBLoop" => rpc \in {"writeSlot", "flipFlag", "unlock"}

\* C5 (amended): every periodic scan runs with the cache-wide lock free and a
\* periodic refresh holds the write lock only for the slot assignment and
\* the flag flip; the startup scan runs with the write lock held.
C5_PeriodicScanWithoutLock ==
    /\ (ticks > 0 /\ Scanning) => cachelock = "unlocked"
    /\ (ticks > 0 /\ cachelock = "fetchDBLoop") => rpc \in {"writeSlot", "flipFlag", "unlock"}
    /\ (ticks = 0 /\ Scanning) => cachelock = "fetchDBLoop"

\* C5 witness: a periodic scan is under way, the lock is free and a worker
\* is at its getCache call
C5_Witness ==
    /\ ticks > 0
    /\ rpc = "fetchPage"
    /\ start > 0
    /\ cachelock = "unlocked"
    /\ \E w \in Workers : pc[w] = "getCache"

\* C6: a periodic refresh writes the new generation into the slot the flag
\* does not select and leaves the selected slot as it is, flips the flag
\* under the same hold of the write lock, and no step of the refresh
\* goroutine changes the map of a generation a worker has obtained.
C6_InactiveSlotSwap ==
    [][/\ (rpc = "writeSlot" /\ rpc' = "flipFlag") =>
            /\ cache'[flag] = cache[flag]
            /\ cache'[~flag] = hostcache
            /\ flag' = flag
            /\ cachelock = "fetchDBLoop" /\ cachelock' = "fetchDBLoop"
       /\ (rpc = "flipFlag" /\ rpc' = "unlock") =>
            /\ flag' = ~flag
            /\ cache' = cache
            /\ cachelock = "fetchDBLoop" /\ cachelock' = "fetchDBLoop"
       /\ (ticks' > 0 /\ pc' = pc) =>
            /\ cache'[flag] = cache[flag]
            /\ \A w \in Workers :
                 probed[w] # NilCache => gens'[probed[w]] = gens[probed[w]]]_vars

\* C6 witness: a periodic refresh has been installed while a worker still
\* holds the generation it superseded
C6_Witness ==
    \E w \in Workers :
        /\ pc[w] = "get"
        /\ probed[w] # NilCache
        /\ probed[w] # cache[flag]
        /\ probed[w] = cache[~flag]
        /\ ticks > 0
        /\ rpc = "tick"

(***************************************************************************)
(* needToUpdate: the change detector.                                      *)
(***************************************************************************)
\* util.GetFloat64ByInterface: <<converted, value>>; numeric types convert,
\* strings and nil do not
GetFloat64ByInterface(a) ==
    IF a.t \in {"int64", "uint64", "float64"} THEN <<TRUE, a.v>> ELSE <<FALSE, 0>>

\* the fields compared within the tolerance band
ToleranceKeys == {"bk_cpu", "bk_cpu_mhz", "bk_disk", "bk_mem"}

\* The pairs <<compareFloat64Val, changeRangePercent>>, among the modelled
\* values whose product is a multiple of 100, for which the float64 product
\* compareFloat64Val * (float64(changeRangePercent)/100.0) is greater than
\* the real number it approximates: float64(7)/100.0 is
\* 0.07000000000000000666..., and 100 times it rounds to 7.000000000000001.
\* With percent 10 the product is exact for every modelled value.
Float64RoundsUp == {<<100, 7>>}

\* rangeVal := compareFloat64Val * (float64(h.changeRangePercent)/100.0),
\* held as the whole number 100 * rangeVal and the direction of the rounding
RangeVal(compareFloat64Val, percent) ==
    [num |-> compareFloat64Val * percent,
     up |-> <<compareFloat64Val, percent>> \in Float64RoundsUp]

\* -rangeVal < diff && diff < rangeVal, for a whole diff
InRange(diff, rangeVal) ==
    /\ \/ -rangeVal.num < 100 * diff
       \/ -rangeVal.num = 100 * diff /\ rangeVal.up
    /\ \/ 100 * diff < rangeVal.num
       \/ 100 * diff = rangeVal.num /\ rangeVal.up

\* FieldChanged with the bug of skipping every field the record lacks,
\* whatever the candidate is
FieldChangedSkipAbsent(key, val, compareVal, percent) ==
    IF compareVal.t = "nil"
    THEN FALSE
    ELSE IF ~IfaceEq(compareVal, val)
         THEN IF key \in ToleranceKeys
              THEN LET srcFloat64Val == GetFloat64ByInterface(val)
                       compareFloat64Val == GetFloat64ByInterface(compareVal)
                   IN  IF ~srcFloat64Val[1] THEN FALSE
                       ELSE IF ~compareFloat64Val[1] THEN FALSE
                       ELSE ~InRange(srcFloat64Val[2] - compareFloat64Val[2],
                                     RangeVal(compareFloat64Val[2], percent))
              ELSE TRUE
         ELSE FALSE

\* FieldChanged with the bug of reporting a change when the current value
\* does not convert to a number
FieldChangedOnConvError(key, val, compareVal, percent) ==
    IF compareVal.t = "nil" /\ IfaceEq(val, Str(""))
    THEN FALSE
    ELSE IF ~IfaceEq(compareVal, val)
         THEN IF key \in ToleranceKeys
              THEN LET srcFloat64Val == GetFloat64ByInterface(val)
                       compareFloat64Val == GetFloat64ByInterface(compareVal)
                   IN  IF ~srcFloat64Val[1] THEN FALSE
                       ELSE IF ~compareFloat64Val[1] THEN TRUE
                       ELSE ~InRange(srcFloat64Val[2] - compareFloat64Val[2],
                                     RangeVal(compareFloat64Val[2], percent))
              ELSE TRUE
         ELSE FALSE

\* needToUpdate, the body of the loop for one key: TRUE when it reaches
\* `return true`, FALSE when it continues with the next key
FieldChanged(key, val, compareVal, percent) ==
    IF compareVal.t = "nil" /\ IfaceEq(val, Str(""))
    THEN FALSE
    ELSE IF ~IfaceEq(compareVal, val)
         THEN IF key \in ToleranceKeys
              THEN LET srcFloat64Val == GetFloat64ByInterface(val)
                       compareFloat64Val == GetFloat64ByInterface(compareVal)
                   IN  IF ~srcFloat64Val[1] THEN FALSE
                       ELSE IF ~compareFloat64Val[1] THEN FALSE
                       ELSE ~InRange(srcFloat64Val[2] - compareFloat64Val[2],
                                     RangeVal(compareFloat64Val[2], percent))
              ELSE TRUE
         ELSE FALSE

\* NeedToUpdateLoop with the bug of keeping only the verdict of the field
\* visited last
RECURSIVE NeedToUpdateLastWins(_, _, _, _)
NeedToUpdateLastWins(srcMap, data, keys, percent) ==
    IF keys = <<>> THEN FALSE
    ELSE IF Len(keys) = 1
         THEN FieldChanged(keys[1], srcMap[keys[1]], InstGet(data, keys[1]), percent)
         ELSE NeedToUpdateLastWins(srcMap, data, Tail(keys), percent)

\* needToUpdate: `for key, val := range src` visiting the keys in the order
\* keys, returning true at the first changed field and false after the loop
RECURSIVE NeedToUpdateLoop(_, _, _, _)
NeedToUpdateLoop(srcMap, data, keys, percent) ==
    IF keys = <<>> THEN FALSE
    ELSE IF FieldChanged(Head(keys), srcMap[Head(keys)], InstGet(data, Head(keys)), percent)
         THEN TRUE
         ELSE NeedToUpdateLoop(srcMap, data, Tail(keys), percent)

\* the orders in which a range over a map with key set S can visit it
Orders(S) == {o \in [1..Cardinality(S) -> S] : Range(o) = S}

(***************************************************************************)
(* The inputs needToUpdate is applied to.                                  *)
(***************************************************************************)
\* a key left out of a map
Missing == [t |-> "missing", v |-> 0, s |-> ""]

\* the map holding the chosen value of every key not left out
MapOf(choice) == [k \in {x \in DOMAIN choice : choice[x].t # "missing"} |-> choice[k]]

\* configured percentages: the default and one that is not
Percents == {7, defaultChangeRangePercent}

\* candidate maps: bk_cpu as parseSetter's int64 or a string, bk_disk as
\* parseSetter's uint64, bk_host_name as a string
Candidates ==
    {MapOf(c) : c \in [bk_cpu : {Missing, I64(0), I64(93), I64(100), I64(107), I64(110), Str("x")},
                       bk_disk : {Missing, U64(0), U64(100)},
                       bk_host_name : {Missing, Str(""), Str("a")}]}

\* records: values as the store decodes them or as copyVal left them
Records ==
    {MapOf(c) : c \in [bk_cpu : {Missing, NilVal, I64(0), I64(100), F64(100), Str("x")},
                       bk_disk : {Missing, I64(0), I64(100), U64(100)},
                       bk_host_name : {Missing, NilVal, Str(""), Str("a")}]}

InitNTU ==
    /\ db = <<>>
    /\ InitCache
    /\ InitWorkers
    /\ changeRangePercent \in Percents
    /\ src \in Candidates
    /\ toCompare \in Records
    /\ changed = FALSE
    /\ npc = "call"
    /\ tele = [w \in Workers |-> NoTelemetry]
    /\ Constructed(NoConfig)
    /\ InitPipeline

\* h.needToUpdate(src, toCompare); the range over src visits its keys in an
\* order of the runtime's choosing. Neither map is written.
needToUpdate ==
    /\ npc = "call"
    /\ \E keys \in Orders(DOMAIN src) :
         changed' = NeedToUpdateLoop(src, toCompare, keys, changeRangePercent)
    /\ npc' = "returned"
    /\ UNCHANGED <<pending, svc, limiterVars, db, insts, cacheVars, refreshVars, workerVars, pipeVars,
                   changeRangePercent, src, toCompare>>

NextNTU == needToUpdate

SpecNTU == InitNTU /\ [][NextNTU]_vars

(***************************************************************************)
(* Properties of needToUpdate.                                             *)
(***************************************************************************)
Abs(n) == IF n < 0 THEN -n ELSE n

IsNumber(a) == a.t \in {"int64", "uint64", "float64"}

\* C7 (as claimed): for a tolerance field with numeric candidate and current
\* values, and tolerance = current * percent / 100: a candidate with
\* |candidate - current| < tolerance does not trigger an update (checked
\* where it is the only candidate field), and one with
\* |candidate - current| >= tolerance makes needToUpdate return true. The
\* second half is stated for candidates that differ from the current value.
C7_ToleranceBand ==
    npc = "returned" =>
      \A k \in (DOMAIN src) \cap ToleranceKeys :
        LET val == src[k]
            cur == InstGet(toCompare, k)
            absdiff == Abs(val.v - cur.v)
        IN  (IsNumber(val) /\ IsNumber(cur)) =>
              /\ (100 * absdiff < cur.v * changeRangePercent /\ DOMAIN src = {k}) => ~changed
              /\ (100 * absdiff >= cur.v * changeRangePercent /\ absdiff # 0) => changed

\* a field outside the tolerance set differs: the candidate is not equal to
\* the current value, except for absent against the empty string
ExactFieldDiffers(k) ==
    LET val == src[k]
        cur == InstGet(toCompare, k)
    IN  /\ ~(cur.t = val.t /\ cur.v = val.v /\ cur.s = val.s)
        /\ ~(cur.t = "nil" /\ val.t = "string" /\ val.s = "")

\* C8: needToUpdate returns true whenever some candidate field outside the
\* tolerance set is not equal to the current value, an absent current value
\* against a present, non-empty candidate included; absent against the empty
\* string counts as unchanged, so a candidate map of fields outside the
\* tolerance set that are all equal or absent-against-empty yields false.
C8_ExactFields ==
    npc = "returned" =>
      /\ (\E k \in (DOMAIN src) \ ToleranceKeys : ExactFieldDiffers(k)) => changed
      /\ (\A k \in DOMAIN src : k \notin ToleranceKeys /\ ~ExactFieldDiffers(k)) => ~changed

\* C8 witness: the only candidate field is an empty bk_host_name, the record
\* has no bk_host_name, and needToUpdate returned false
C8_Witness ==
    /\ npc = "returned"
    /\ DOMAIN src = {"bk_host_name"}
    /\ src["bk_host_name"].s = ""
    /\ "bk_host_name" \notin DOMAIN toCompare
    /\ ~changed

\* the candidate or the current value of a tolerance field does not convert
\* to a number
Unconvertible(k) ==
    /\ k \in ToleranceKeys
    /\ ~IsNumber(src[k]) \/ ~IsNumber(InstGet(toCompare, k))

\* C9: a tolerance field whose candidate or current value does not convert
\* to a number (an absent current value included) never by itself makes
\* needToUpdate return true: whenever true is returned, some candidate field
\* is not of that kind.
C9_UnconvertibleUnchanged ==
    (npc = "returned" /\ changed) => \E k \in DOMAIN src : ~Unconvertible(k)

\* C9 witness: the record has no bk_cpu, the only candidate field is
\* bk_cpu = 107, and needToUpdate returned false
C9_Witness ==
    /\ npc = "returned"
    /\ DOMAIN src = {"bk_cpu"}
    /\ src["bk_cpu"].t = "int64" /\ src["bk_cpu"].v = 107
    /\ "bk_cpu" \notin DOMAIN toCompare
    /\ ~changed

RedisSnapKeyPrefix == "cc:v3:snapshot:"

\* the expiry of a snapshot, time.Minute*10, in minutes
SnapshotExpiry == 10

\* strconv.FormatInt(n, 10)
FormatInt(n) == ToString(n)

\* strings.TrimSpace, on the strings the messages carry
TrimSpace(x) == IF x = " web1 " THEN "web1" ELSE x

\* cupnum: the sum of data.cpu.cpuinfo.#.cores
RECURSIVE SumCores(_)
SumCores(cores) == IF cores = <<>> THEN 0 ELSE Head(cores) + SumCores(Tail(cores))

\* parseSetter, for the fields bk_cpu, bk_mem and bk_host_name: the sum of
\* the cores as int64, the memory in MiB (mem >> 10 >> 10) as uint64 and the
\* trimmed host name
parseSetter(val, innerIP, outerIP) ==
    [bk_cpu |-> I64(SumCores(val.cores)),
     bk_mem |-> U64((val.memtotal \div 1024) \div 1024),
     bk_host_name |-> Str(TrimSpace(val.hostname))]

\* the telemetry of the messages: 4 cores and 101 MiB with no host name, and
\* 2 + 2 cores and 200 MiB with a host name
Payloads ==
    { [cores |-> <<4>>, memtotal |-> 101 * 1048576 + 5, hostname |-> ""],
      [cores |-> <<2, 2>>, memtotal |-> 200 * 1048576, hostname |-> " web1 "] }

\* a row whose host id the store decodes as a float64
RowFloatID(i) == [Row(i) EXCEPT !.bk_host_id = F64(i)]

\* a row without an inner ip
RowNoIP(i) == [k \in (DOMAIN Row(i)) \ {"bk_host_innerip"} |-> Row(i)[k]]

\* the host tables of the pipeline: no host, or one host of either kind
Tables == { <<>>, <<Row(1)>>, <<RowFloatID(1)>>, <<RowNoIP(1)>> }

\* a call issued to an external service and how it was answered: "ok",
\* "false" (an answer with Result = false, or a declined request) or "err"
\* (a transport error)
Call(name, arg, res) == [call |-> name, arg |-> arg, res |-> res]

\* a map with the fields of a written over it
Apply(data, a) ==
    [k \in (DOMAIN data) \cup (DOMAIN a) |-> IF k \in DOMAIN a THEN a[k] ELSE data[k]]

\* the store applying an update with the condition bk_host_id = id
UpdateRows(table, id, a) ==
    [i \in DOMAIN table |->
       IF InstGet(table[i], "bk_host_id").t \in {"int64", "uint64", "float64"}
          /\ InstGet(table[i], "bk_host_id").v = id
       THEN Apply(table[i], a) ELSE table[i]]

\* the store's row with the host id, the empty map when there is none
RowByID(table, id) ==
    LET hits == {i \in DOMAIN table :
                   /\ InstGet(table[i], "bk_host_id").t \in {"int64", "uint64", "float64"}
                   /\ InstGet(table[i], "bk_host_id").v = id}
    IN  IF hits = {} THEN EmptyMap ELSE table[CHOOSE i \in hits : \A j \in hits : i <= j]

\* the host id of the record a worker resolved
HostIDOf(w) == InstGet(insts[host[w]], "bk_host_id")

InitAnalyze ==
    /\ db \in Tables
    /\ InitCache
    /\ InitWorkers
    /\ InitDetect
    /\ tele \in [Workers -> Payloads]
    /\ \E b \in Bursts : Constructed([NoConfig EXCEPT !.Burst = <<ToString(b)>>])
    /\ InitPipeline

\* ReturnNotFound with the bug of skipping the message without an error
ReturnNotFoundNil(w) ==
    /\ ~Crashed
    /\ pc[w] = "notfound"
    /\ pc' = [pc EXCEPT ![w] = "returned"]
    /\ ret' = [ret EXCEPT ![w] = "nil"]
    /\ UNCHANGED <<pending, svc, limiterVars, db, insts, cacheVars, refreshVars, detectVars, mesg, ips, idx, probed, host,
                   tele, tokens, setter, calls, preData, curData, bizID, auditLog, redis>>

\* Analyze: host == nil
ReturnNotFound(w) ==
    /\ ~Crashed
    /\ pc[w] = "notfound"
    /\ pc' = [pc EXCEPT ![w] = "returned"]
    /\ ret' = [ret EXCEPT ![w] = "host not found"]
    /\ UNCHANGED <<pending, svc, limiterVars, db, insts, cacheVars, refreshVars, detectVars, mesg, ips, idx, probed, host,
                   tele, tokens, setter, calls, preData, curData, bizID, auditLog, redis>>

\* RedisSet with the bug of returning the error of a failed Set
RedisSetAborts(w) ==
    /\ ~Crashed
    /\ pc[w] = "resolved"
    /\ IF HostIDOf(w).t # "int64"
       THEN /\ pc' = [pc EXCEPT ![w] = "returned"]
            /\ ret' = [ret EXCEPT ![w] = "host id convert from interface to int64 failed"]
            /\ UNCHANGED <<calls, redis>>
       ELSE LET key == RedisSnapKeyPrefix \o FormatInt(HostIDOf(w).v)
            IN  \E res \in {"ok", "err"} :
                  /\ calls' = [calls EXCEPT ![w] = Append(@, Call("Set", key, res))]
                  /\ redis' = IF res = "ok"
                              THEN Apply(redis, [x \in {key} |->
                                          [data |-> [mesg |-> mesg[w], tele |-> tele[w]],
                                           expiry |-> SnapshotExpiry]])
                              ELSE redis
                  /\ pc' = [pc EXCEPT ![w] = IF res = "ok" THEN "needToUpdate" ELSE "returned"]
                  /\ ret' = [ret EXCEPT ![w] = IF res = "ok" THEN @ ELSE "save snapshot failed"]
    /\ UNCHANGED <<pending, svc, limiterVars, db, insts, cacheVars, refreshVars, detectVars, mesg, ips, idx, probed, host,
                   tele, tokens, setter, preData, curData, bizID, auditLog>>

\* Analyze: hostID.(int64), FormatInt and h.redisCli.Set(prefix + hostIdStr,
\* data, 10 minutes); an error of Set is logged only
RedisSet(w) ==
    /\ ~Crashed
    /\ pc[w] = "resolved"
    /\ IF HostIDOf(w).t # "int64"
       THEN /\ pc' = [pc EXCEPT ![w] = "returned"]
            /\ ret' = [ret EXCEPT ![w] = "host id convert from interface to int64 failed"]
            /\ UNCHANGED <<calls, redis>>
       ELSE LET key == RedisSnapKeyPrefix \o FormatInt(HostIDOf(w).v)
            IN  \E res \in {"ok", "err"} :
                  /\ calls' = [calls EXCEPT ![w] = Append(@, Call("Set", key, res))]
                  /\ redis' = IF res = "ok"
                              THEN Apply(redis, [x \in {key} |->
                                          [data |-> [mesg |-> mesg[w], tele |-> tele[w]],
                                           expiry |-> SnapshotExpiry]])
                              ELSE redis
                  /\ pc' = [pc EXCEPT ![w] = "needToUpdate"]
                  /\ UNCHANGED ret
    /\ UNCHANGED <<pending, svc, limiterVars, db, insts, cacheVars, refreshVars, detectVars, mesg, ips, idx, probed, host,
                   tele, tokens, setter, preData, curData, bizID, auditLog>>

\* Detect with a lock of the record held from change detection to copyVal:
\* the call waits while another call is between the two for the same record
DetectSerialized(w) ==
    /\ ~Crashed
    /\ pc[w] = "needToUpdate"
    /\ \A x \in Workers \ {w} :
         host[x] = host[w] => pc[x] \notin {"TryAccept", "UpdateInstance", "clone", "copyVal"}
    /\ LET innerIp == InstGet(insts[host[w]], "bk_host_innerip")
           outIp == InstGet(insts[host[w]], "bk_host_outerip")
       IN  IF innerIp.t # "string"
           THEN /\ pc' = [pc EXCEPT ![w] = "returned"]
                /\ ret' = [ret EXCEPT ![w] = "get host innerIp failed"]
                /\ UNCHANGED setter
           ELSE LET new == parseSetter(tele[w], innerIp.s,
                                       IF outIp.t = "string" THEN outIp.s ELSE "")
                IN  /\ setter' = [setter EXCEPT ![w] = new]
                    /\ \E keys \in Orders(DOMAIN new) :
                         IF NeedToUpdateLoop(new, insts[host[w]], keys, changeRangePercent)
                         THEN /\ pc' = [pc EXCEPT ![w] = "TryAccept"]
                              /\ UNCHANGED ret
                         ELSE /\ pc' = [pc EXCEPT ![w] = "returned"]
                              /\ ret' = [ret EXCEPT ![w] = "nil"]
    /\ UNCHANGED <<pending, svc, limiterVars, db, insts, cacheVars, refreshVars, detectVars, mesg, ips, idx, probed, host,
                   tele, tokens, calls, preData, curData, bizID, auditLog, redis>>

\* Detect with the bug of treating an outer ip that is not a string like an
\* inner ip that is not a string
DetectOuterStrict(w) ==
    /\ ~Crashed
    /\ pc[w] = "needToUpdate"
    /\ LET innerIp == InstGet(insts[host[w]], "bk_host_innerip")
           outIp == InstGet(insts[host[w]], "bk_host_outerip")
       IN  IF innerIp.t # "string" \/ outIp.t # "string"
           THEN /\ pc' = [pc EXCEPT ![w] = "returned"]
                /\ ret' = [ret EXCEPT ![w] = "get host innerIp failed"]
                /\ UNCHANGED setter
           ELSE LET new == parseSetter(tele[w], innerIp.s, outIp.s)
                IN  /\ setter' = [setter EXCEPT ![w] = new]
                    /\ \E keys \in Orders(DOMAIN new) :
                         IF NeedToUpdateLoop(new, insts[host[w]], keys, changeRangePercent)
                         THEN /\ pc' = [pc EXCEPT ![w] = "TryAccept"]
                              /\ UNCHANGED ret
                         ELSE /\ pc' = [pc EXCEPT ![w] = "returned"]
                              /\ ret' = [ret EXCEPT ![w] = "nil"]
    /\ UNCHANGED <<pending, svc, limiterVars, db, insts, cacheVars, refreshVars, detectVars, mesg, ips, idx, probed, host,
                   tele, tokens, calls, preData, curData, bizID, auditLog, redis>>

\* Detect with the bug of an inverted test: the call goes on when
\* needToUpdate returned false and returns when it returned true
DetectInverted(w) ==
    /\ ~Crashed
    /\ pc[w] = "needToUpdate"
    /\ LET innerIp == InstGet(insts[host[w]], "bk_host_innerip")
           outIp == InstGet(insts[host[w]], "bk_host_outerip")
       IN  IF innerIp.t # "string"
           THEN /\ pc' = [pc EXCEPT ![w] = "returned"]
                /\ ret' = [ret EXCEPT ![w] = "get host innerIp failed"]
                /\ UNCHANGED setter
           ELSE LET new == parseSetter(tele[w], innerIp.s,
                                       IF outIp.t = "string" THEN outIp.s ELSE "")
                IN  /\ setter' = [setter EXCEPT ![w] = new]
                    /\ \E keys \in Orders(DOMAIN new) :
                         IF ~NeedToUpdateLoop(new, insts[host[w]], keys, changeRangePercent)
                         THEN /\ pc' = [pc EXCEPT ![w] = "TryAccept"]
                              /\ UNCHANGED ret
                         ELSE /\ pc' = [pc EXCEPT ![w] = "returned"]
                              /\ ret' = [ret EXCEPT ![w] = "nil"]
    /\ UNCHANGED <<pending, svc, limiterVars, db, insts, cacheVars, refreshVars, detectVars, mesg, ips, idx, probed, host,
                   tele, tokens, calls, preData, curData, bizID, auditLog, redis>>

\* Analyze: innerIp, outIp, setter := parseSetter(...) and
\* !h.needToUpdate(setter, host). An inner ip that is not a string ends the
\* call with an error, an outer ip that is not a string counts as "".
Detect(w) ==
    /\ ~Crashed
    /\ pc[w] = "needToUpdate"
    /\ LET innerIp == InstGet(insts[host[w]], "bk_host_innerip")
           outIp == InstGet(insts[host[w]], "bk_host_outerip")
       IN  IF innerIp.t # "string"
           THEN /\ pc' = [pc EXCEPT ![w] = "returned"]
                /\ ret' = [ret EXCEPT ![w] = "get host innerIp failed"]
                /\ UNCHANGED setter
           ELSE LET new == parseSetter(tele[w], innerIp.s,
                                       IF outIp.t = "string" THEN outIp.s ELSE "")
                IN  /\ setter' = [setter EXCEPT ![w] = new]
                    /\ \E keys \in Orders(DOMAIN new) :
                         IF NeedToUpdateLoop(new, insts[host[w]], keys, changeRangePercent)
                         THEN /\ pc' = [pc EXCEPT ![w] = "TryAccept"]
                              /\ UNCHANGED ret
                         ELSE /\ pc' = [pc EXCEPT ![w] = "returned"]
                              /\ ret' = [ret EXCEPT ![w] = "nil"]
    /\ UNCHANGED <<pending, svc, limiterVars, db, insts, cacheVars, refreshVars, detectVars, mesg, ips, idx, probed, host,
                   tele, tokens, calls, preData, curData, bizID, auditLog, redis>>

\* flowctrl.RateLimiter.TryAccept on a bucket of n tokens: it answers at
\* once, true when the bucket holds a token, which it takes
Accepts(n) == n > 0
Take(n) == IF n > 0 THEN n - 1 ELSE n

\* TryAccept with the bug of going on to the persistence call when the
\* limiter declined
TryAcceptIgnored(w) ==
    /\ ~Crashed
    /\ pc[w] = "TryAccept"
    /\ tokens' = Take(tokens)
    /\ answers' = Append(answers, Accepts(tokens))
    /\ calls' = [calls EXCEPT ![w] =
                   Append(@, Call("TryAccept", "", IF Accepts(tokens) THEN "ok" ELSE "false"))]
    /\ pc' = [pc EXCEPT ![w] = "UpdateInstance"]
    /\ UNCHANGED ret
    /\ UNCHANGED <<pending, svc, snapConfig, qps, burst, startTokens, db, insts, cacheVars, refreshVars, detectVars, mesg, ips, idx, probed, host,
                   tele, setter, preData, curData, bizID, auditLog, redis>>

\* Analyze: !h.rateLimit.TryAccept()
TryAccept(w) ==
    /\ ~Crashed
    /\ pc[w] = "TryAccept"
    /\ answers' = Append(answers, Accepts(tokens))
    /\ IF Accepts(tokens)
       THEN /\ tokens' = Take(tokens)
            /\ calls' = [calls EXCEPT ![w] = Append(@, Call("TryAccept", "", "ok"))]
            /\ pc' = [pc EXCEPT ![w] = "UpdateInstance"]
            /\ UNCHANGED ret
       ELSE /\ calls' = [calls EXCEPT ![w] = Append(@, Call("TryAccept", "", "false"))]
            /\ pc' = [pc EXCEPT ![w] = "returned"]
            /\ ret' = [ret EXCEPT ![w] = "nil"]
            /\ UNCHANGED tokens
    /\ UNCHANGED <<pending, svc, snapConfig, qps, burst, startTokens, db, insts, cacheVars, refreshVars, detectVars, mesg, ips, idx, probed, host,
                   tele, setter, preData, curData, bizID, auditLog, redis>>

\* UpdateInstance with the bug of testing only the transport error: an
\* answer with Result = false goes on to clone and copyVal
UpdateInstanceResultIgnored(w) ==
    /\ ~Crashed
    /\ pc[w] = "UpdateInstance"
    /\ \E res \in {"ok", "false", "err"} :
         /\ calls' = [calls EXCEPT ![w] =
                        Append(@, Call("UpdateInstance", FormatInt(HostIDOf(w).v), res))]
         /\ IF res # "err"
            THEN /\ db' = IF res = "ok" THEN UpdateRows(db, HostIDOf(w).v, setter[w]) ELSE db
                 /\ pc' = [pc EXCEPT ![w] = "clone"]
                 /\ UNCHANGED ret
            ELSE /\ pc' = [pc EXCEPT ![w] = "returned"]
                 /\ ret' = [ret EXCEPT ![w] = "UpdateInstance: http do error"]
                 /\ UNCHANGED db
    /\ UNCHANGED <<pending, svc, limiterVars, insts, cacheVars, refreshVars, detectVars, mesg, ips, idx, probed, host,
                   tele, tokens, setter, preData, curData, bizID, auditLog, redis>>

\* UpdateInstance with the bug of handing the token back to the limiter when
\* the store does not apply the update
UpdateInstanceRefunding(w) ==
    /\ ~Crashed
    /\ pc[w] = "UpdateInstance"
    /\ \E res \in {"ok", "false", "err"} :
         /\ calls' = [calls EXCEPT ![w] =
                        Append(@, Call("UpdateInstance", FormatInt(HostIDOf(w).v), res))]
         /\ IF res = "ok"
            THEN /\ db' = UpdateRows(db, HostIDOf(w).v, setter[w])
                 /\ pc' = [pc EXCEPT ![w] = "clone"]
                 /\ UNCHANGED <<ret, tokens>>
            ELSE /\ pc' = [pc EXCEPT ![w] = "returned"]
                 /\ ret' = [ret EXCEPT ![w] =
                              IF res = "err" THEN "UpdateInstance: http do error"
                              ELSE "UpdateInstacne http response error"]
                 /\ tokens' = tokens + 1
                 /\ UNCHANGED db
    /\ UNCHANGED <<pending, svc, limiterVars, insts, cacheVars, refreshVars, detectVars, mesg, ips, idx, probed, host,
                   tele, setter, preData, curData, bizID, auditLog, redis>>

\* Analyze: UpdateInstance with the condition bk_host_id = hostID and the
\* data setter
UpdateInstance(w) ==
    /\ ~Crashed
    /\ pc[w] = "UpdateInstance"
    /\ \E res \in {"ok", "false", "err"} :
         /\ calls' = [calls EXCEPT ![w] =
                        Append(@, Call("UpdateInstance", FormatInt(HostIDOf(w).v), res))]
         /\ IF res = "ok"
            THEN /\ db' = UpdateRows(db, HostIDOf(w).v, setter[w])
                 /\ pc' = [pc EXCEPT ![w] = "clone"]
                 /\ UNCHANGED ret
            ELSE /\ pc' = [pc EXCEPT ![w] = "returned"]
                 /\ ret' = [ret EXCEPT ![w] =
                              IF res = "err" THEN "UpdateInstance: http do error"
                              ELSE "UpdateInstacne http response error"]
                 /\ UNCHANGED db
    /\ UNCHANGED <<pending, svc, limiterVars, insts, cacheVars, refreshVars, detectVars, mesg, ips, idx, probed, host,
                   tele, tokens, setter, preData, curData, bizID, auditLog, redis>>

\* Analyze: preData := host.clone()
Clone(w) ==
    /\ ~Crashed
    /\ pc[w] = "clone"
    /\ preData' = [preData EXCEPT ![w] = insts[host[w]]]
    /\ pc' = [pc EXCEPT ![w] = "copyVal"]
    /\ UNCHANGED <<pending, svc, limiterVars, db, insts, cacheVars, refreshVars, detectVars, mesg, ips, idx, probed, host,
                   tele, tokens, setter, calls, ret, curData, bizID, auditLog, redis>>

\* Analyze: copyVal(setter, host), the whole loop with no step of another
\* goroutine between its set calls
CopyVal(w) ==
    /\ ~Crashed
    /\ pc[w] = "copyVal"
    /\ insts' = [insts EXCEPT ![host[w]] = Apply(@, setter[w])]
    /\ pc' = [pc EXCEPT ![w] = "GetHostByID"]
    /\ UNCHANGED <<pending, svc, limiterVars, db, cacheVars, refreshVars, detectVars, mesg, ips, idx, probed, host,
                   tele, tokens, setter, calls, ret, preData, curData, bizID, auditLog, redis>>

\* Analyze: curData, err := GetHostByID(hostIdStr). On an answer with
\* Result = false the code returns err, which is nil at that point.
GetHostByID(w) ==
    /\ ~Crashed
    /\ pc[w] = "GetHostByID"
    /\ \E res \in {"ok", "false", "err"} :
         /\ calls' = [calls EXCEPT ![w] =
                        Append(@, Call("GetHostByID", FormatInt(HostIDOf(w).v), res))]
         /\ IF res = "ok"
            THEN /\ curData' = [curData EXCEPT ![w] = RowByID(db, HostIDOf(w).v)]
                 /\ pc' = [pc EXCEPT ![w] = "GetHostModuleRelation"]
                 /\ UNCHANGED ret
            ELSE /\ pc' = [pc EXCEPT ![w] = "returned"]
                 /\ ret' = [ret EXCEPT ![w] =
                              IF res = "err" THEN "GetHostByID: http request failed" ELSE "nil"]
                 /\ UNCHANGED curData
    /\ UNCHANGED <<pending, svc, limiterVars, db, insts, cacheVars, refreshVars, detectVars, mesg, ips, idx, probed, host,
                   tele, tokens, setter, preData, bizID, auditLog, redis>>

\* Analyze: moduleHost, err := GetHostModuleRelation(HostIDArr: [hostID]);
\* bizID is the AppID of the first relation, 0 when there is none
GetHostModuleRelation(w) ==
    /\ ~Crashed
    /\ pc[w] = "GetHostModuleRelation"
    /\ \E res \in {"ok", "false", "err"} :
         /\ calls' = [calls EXCEPT ![w] =
                        Append(@, Call("GetHostModuleRelation", FormatInt(HostIDOf(w).v), res))]
         /\ IF res = "ok"
            THEN /\ \E info \in {<<>>, <<2>>} :
                      bizID' = [bizID EXCEPT ![w] = IF Len(info) > 0 THEN info[1] ELSE 0]
                 /\ pc' = [pc EXCEPT ![w] = "GetAuditLogHeader"]
                 /\ UNCHANGED ret
            ELSE /\ pc' = [pc EXCEPT ![w] = "returned"]
                 /\ ret' = [ret EXCEPT ![w] =
                              IF res = "err" THEN "GetHostModuleRelation: http do error"
                              ELSE "get moduleHostConfig failed"]
                 /\ UNCHANGED bizID
    /\ UNCHANGED <<pending, svc, limiterVars, db, insts, cacheVars, refreshVars, detectVars, mesg, ips, idx, probed, host,
                   tele, tokens, setter, preData, curData, auditLog, redis>>

\* GetAuditLogHeader with the bug of submitting the audit entry without a
\* header when the header could not be fetched
GetAuditLogHeaderIgnored(w) ==
    /\ ~Crashed
    /\ pc[w] = "GetAuditLogHeader"
    /\ \E res \in {"ok", "err"} :
         /\ calls' = [calls EXCEPT ![w] = Append(@, Call("GetAuditLogHeader", "host", res))]
         /\ pc' = [pc EXCEPT ![w] = "SaveAuditLog"]
         /\ UNCHANGED ret
    /\ UNCHANGED <<pending, svc, limiterVars, db, insts, cacheVars, refreshVars, detectVars, mesg, ips, idx, probed, host,
                   tele, tokens, setter, preData, curData, bizID, auditLog, redis>>

\* Analyze: auditHeader, err := dcUtil.GetAuditLogHeader(...)
GetAuditLogHeader(w) ==
    /\ ~Crashed
    /\ pc[w] = "GetAuditLogHeader"
    /\ \E res \in {"ok", "err"} :
         /\ calls' = [calls EXCEPT ![w] = Append(@, Call("GetAuditLogHeader", "host", res))]
         /\ IF res = "ok"
            THEN /\ pc' = [pc EXCEPT ![w] = "SaveAuditLog"]
                 /\ UNCHANGED ret
            ELSE /\ pc' = [pc EXCEPT ![w] = "returned"]
                 /\ ret' = [ret EXCEPT ![w] = "GetAuditLogHeader failed"]
    /\ UNCHANGED <<pending, svc, limiterVars, db, insts, cacheVars, refreshVars, detectVars, mesg, ips, idx, probed, host,
                   tele, tokens, setter, preData, curData, bizID, auditLog, redis>>

\* SaveAuditLog with the bug of taking PreData from the record after copyVal
\* instead of from the clone
SaveAuditLogPreFromRecord(w) ==
    /\ ~Crashed
    /\ pc[w] = "SaveAuditLog"
    /\ auditLog' = [auditLog EXCEPT ![w] =
                      [ID |-> HostIDOf(w).v, Model |-> "host", OpType |-> "modify",
                       PreData |-> insts[host[w]], CurData |-> curData[w],
                       ExtKey |-> InstGet(insts[host[w]], "bk_host_innerip").s,
                       BizID |-> bizID[w]]]
    /\ \E res \in {"ok", "false", "err"} :
         /\ calls' = [calls EXCEPT ![w] =
                        Append(@, Call("SaveAuditLog", FormatInt(HostIDOf(w).v), res))]
         /\ ret' = [ret EXCEPT ![w] =
                      IF res = "ok" THEN "nil"
                      ELSE IF res = "err" THEN "SaveAuditLog: http failed"
                      ELSE "create host audit log failed"]
    /\ pc' = [pc EXCEPT ![w] = "returned"]
    /\ UNCHANGED <<pending, svc, limiterVars, db, insts, cacheVars, refreshVars, detectVars, mesg, ips, idx, probed, host,
                   tele, tokens, setter, preData, curData, bizID, redis>>

\* Analyze: auditLog := metadata.SaveAuditLogParams{...}; SaveAuditLog(auditLog)
SaveAuditLog(w) ==
    /\ ~Crashed
    /\ pc[w] = "SaveAuditLog"
    /\ auditLog' = [auditLog EXCEPT ![w] =
                      [ID |-> HostIDOf(w).v, Model |-> "host", OpType |-> "modify",
                       PreData |-> preData[w], CurData |-> curData[w],
                       ExtKey |-> InstGet(insts[host[w]], "bk_host_innerip").s,
                       BizID |-> bizID[w]]]
    /\ \E res \in {"ok", "false", "err"} :
         /\ calls' = [calls EXCEPT ![w] =
                        Append(@, Call("SaveAuditLog", FormatInt(HostIDOf(w).v), res))]
         /\ ret' = [ret EXCEPT ![w] =
                      IF res = "ok" THEN "nil"
                      ELSE IF res = "err" THEN "SaveAuditLog: http failed"
                      ELSE "create host audit log failed"]
    /\ pc' = [pc EXCEPT ![w] = "returned"]
    /\ UNCHANGED <<pending, svc, limiterVars, db, insts, cacheVars, refreshVars, detectVars, mesg, ips, idx, probed, host,
                   tele, tokens, setter, preData, curData, bizID, redis>>

\* the workers' Analyze calls with the startup of the refresh goroutine, the
\* bucket of the limiter being full at first; the first tick of
\* fetchDBInterval and the next refill of the bucket lie beyond the calls
NextAnalyze ==
    \/ StartupLock
    \/ FetchBegin
    \/ FetchPage
    \/ StartupInstall
    \/ StartupUnlock
    \/ \E w \in Workers : Analyze(w)
    \/ \E w \in Workers : getCache(w)
    \/ \E w \in Workers : get(w)
    \/ \E w \in Workers : find(w)
    \/ \E w \in Workers : setCache(w)
    \/ \E w \in Workers : ReturnNotFound(w)
    \/ \E w \in Workers : RedisSet(w)
    \/ \E w \in Workers : Detect(w)
    \/ \E w \in Workers : TryAccept(w)
    \/ \E w \in Workers : UpdateInstance(w)
    \/ \E w \in Workers : Clone(w)
    \/ \E w \in Workers : CopyVal(w)
    \/ \E w \in Workers : GetHostByID(w)
    \/ \E w \in Workers : GetHostModuleRelation(w)
    \/ \E w \in Workers : GetAuditLogHeader(w)
    \/ \E w \in Workers : SaveAuditLog(w)

SpecAnalyze == InitAnalyze /\ [][NextAnalyze]_vars

(***************************************************************************)
(* Properties of the update pipeline.                                      *)
(***************************************************************************)
\* the names of the calls a worker has issued, in order
CallNames(w) == [i \in DOMAIN calls[w] |-> calls[w][i].call]

\* the worker takes a step of its Analyze call
Steps(w) == pc'[w] # pc[w]

\* the record the worker resolved has a string inner ip
InnerIPIsString(w) == InstGet(insts[host[w]], "bk_host_innerip").t = "string"

\* some field of the candidate map differs from the record the worker
\* resolved, under the rule of needToUpdate
Differs(w, candidate) ==
    \E k \in DOMAIN candidate :
        FieldChanged(k, candidate[k], InstGet(insts[host[w]], k), changeRangePercent)

\* the candidate map of the worker's message
CandidateOf(w) == parseSetter(tele[w], "", "")

\* C11: when the host is resolved and no candidate field differs from the
\* cached record beyond the rule of needToUpdate, Analyze returns nil at the
\* change detection: the only call it has issued is the snapshot-cache
\* write, and the step changes no cached record, no row of the store, no
\* token and no audit entry.
C11_NoChangeNoEffects ==
    [][\A w \in Workers :
         (pc[w] = "needToUpdate" /\ Steps(w) /\ InnerIPIsString(w)
             /\ ~Differs(w, CandidateOf(w))) =>
            /\ pc'[w] = "returned"
            /\ ret'[w] = "nil"
            /\ calls'[w] = calls[w]
            /\ CallNames(w) = <<"Set">>
            /\ insts' = insts
            /\ db' = db
            /\ tokens' = tokens
            /\ auditLog' = auditLog
            /\ redis' = redis]_vars

\* C11 witness: the cached record has 4 cores and 100 MiB, the message
\* reports 4 cores and 101 MiB, and Analyze has returned nil after the
\* snapshot-cache write alone
C11_Witness ==
    \E w \in Workers :
        /\ pc[w] = "returned"
        /\ ret[w] = "nil"
        /\ setter[w] # EmptyMap
        /\ setter[w]["bk_cpu"].v = 4 /\ setter[w]["bk_mem"].v = 101
        /\ InstGet(insts[host[w]], "bk_cpu").v = 4
        /\ InstGet(insts[host[w]], "bk_mem").v = 100
        /\ calls[w] = <<Call("Set", RedisSnapKeyPrefix \o "1", "ok")>>
        /\ RedisSnapKeyPrefix \o "1" \in DOMAIN redis

\* C12: when an update is needed and the limiter declines, TryAccept answers
\* at once and Analyze returns nil: the calls it has issued are the
\* snapshot-cache write and TryAccept, none of UpdateInstance, GetHostByID,
\* GetHostModuleRelation, GetAuditLogHeader or SaveAuditLog, and the step
\* leaves every cached record and the store as they are, so a difference
\* between the candidate and the record is still there afterwards.
C12_DeclinedDropsUpdate ==
    [][\A w \in Workers :
         /\ (pc[w] = "TryAccept" /\ ~Crashed) => ENABLED TryAccept(w)
         /\ (pc[w] = "TryAccept" /\ Steps(w) /\ ~Accepts(tokens)) =>
              /\ pc'[w] = "returned"
              /\ ret'[w] = "nil"
              /\ CallNames(w)' = <<"Set", "TryAccept">>
              /\ insts' = insts
              /\ db' = db
              /\ auditLog' = auditLog
              /\ Differs(w, setter[w]) => Differs(w, setter[w])']_vars

\* C12 witness: a worker whose candidate differs from the record was
\* declined and has returned nil, the record still differing
C12_Witness ==
    \E w \in Workers :
        /\ pc[w] = "returned"
        /\ ret[w] = "nil"
        /\ Len(calls[w]) = 2
        /\ calls[w][2] = Call("TryAccept", "", "false")
        /\ Differs(w, setter[w])

\* the calls of a message that is applied and audited
FullPath ==
    <<"Set", "TryAccept", "UpdateInstance", "GetHostByID", "GetHostModuleRelation",
      "GetAuditLogHeader", "SaveAuditLog">>

\* the worker's SaveAuditLog call is answered with success and Analyze returns
ReturnsAudited(w) ==
    /\ pc[w] = "SaveAuditLog"
    /\ pc'[w] = "returned"
    /\ calls'[w][Len(calls'[w])].res = "ok"

\* the record the worker resolved holds every field value of its candidate
HoldsCandidate(w) ==
    \A k \in DOMAIN setter[w] : IfaceEq(InstGet(insts[host[w]], k), setter[w][k])

\* the worker has executed its copyVal
Applied(w) ==
    \/ pc[w] = "GetHostByID"
    \/ \E i \in DOMAIN calls[w] : calls[w][i].call = "GetHostByID"

\* another worker that resolved the same record has executed its copyVal
OtherApplied(w) ==
    \E w2 \in Workers \ {w} : host[w2] = host[w] /\ Applied(w2)

\* what C13 says of the calls and of the audit entry of a message that is
\* applied and audited: one call of each kind, the update keyed by the host
\* id, an entry of type modify with the clone as PreData and the re-fetched
\* record as CurData, and nil returned
AuditedAsClaimed(w) ==
    /\ ret'[w] = "nil"
    /\ CallNames(w)' = FullPath
    /\ calls'[w][3].arg = FormatInt(HostIDOf(w).v)
    /\ auditLog'[w].ID = HostIDOf(w).v
    /\ auditLog'[w].OpType = "modify"
    /\ auditLog'[w].PreData = preData[w]
    /\ auditLog'[w].CurData = curData[w]

NothingTouched ==
    /\ gens' = gens
    /\ insts' = insts
    /\ cache' = cache
    /\ flag' = flag
    /\ db' = db
    /\ redis' = redis
    /\ tokens' = tokens
    /\ auditLog' = auditLog

\* C14: when no candidate key hit and the lookup in the store gives no row
\* (the cloud id is not an integer, the result is empty, or the query failed
\* before a row was decoded), getHostByVal returns nil without touching the
\* host index, and Analyze returns the host-not-found error having issued no
\* call at all; the probes of the resolution do not touch the index either.
C14_NotFoundNoCalls ==
    [][\A w \in Workers :
         /\ (pc[w] \in {"idle", "getCache", "get"} /\ Steps(w)) => NothingTouched
         /\ (pc[w] = "find" /\ Steps(w)
               /\ \/ ~Atoi(mesg[w].cloudid)[1]
                  \/ Matching(db, Atoi(mesg[w].cloudid)[2], Range(ips[w])) = <<>>) =>
              host'[w] = NilInst
         /\ (pc[w] = "find" /\ Steps(w) /\ host'[w] = NilInst) =>
              /\ pc'[w] = "notfound"
              /\ calls'[w] = <<>>
              /\ NothingTouched
         /\ (pc[w] = "notfound" /\ Steps(w)) =>
              /\ pc'[w] = "returned"
              /\ ret'[w] = "host not found"
              /\ calls'[w] = <<>>
              /\ NothingTouched]_vars

\* C14 witness: the host of the message is in the store but not in the
\* active generation, the lookup failed, and Analyze has returned the
\* host-not-found error without a call
C14_Witness ==
    \E w \in Workers :
        /\ pc[w] = "returned"
        /\ ret[w] = "host not found"
        /\ calls[w] = <<>>
        /\ Atoi(mesg[w].cloudid)[1]
        /\ Matching(db, Atoi(mesg[w].cloudid)[2], Range(ips[w])) # <<>>
        /\ cache[flag] # NilCache
        /\ gens[cache[flag]] = EmptyMap
        /\ redis = EmptyMap

\* the calls of steps 4-6, in the order of the code
Downstream ==
    <<"UpdateInstance", "GetHostByID", "GetHostModuleRelation", "GetAuditLogHeader", "SaveAuditLog">>

\* the step issues a call of steps 4-6 and the call does not succeed
FailsDownstream(w) ==
    /\ Len(calls'[w]) = Len(calls[w]) + 1
    /\ calls'[w][Len(calls'[w])].call \in Range(Downstream)
    /\ calls'[w][Len(calls'[w])].res # "ok"

\* C15: whenever UpdateInstance, GetHostByID, GetHostModuleRelation,
\* GetAuditLogHeader or SaveAuditLog answers with a transport error or a
\* non-success result, Analyze returns a non-nil error, and no call of the
\* pipeline follows a failed one. Violated: on Result = false from
\* GetHostByID the code returns err, which is nil there.
C15_FailureSurfaced ==
    [][\A w \in Workers :
         /\ FailsDownstream(w) => pc'[w] = "returned" /\ ret'[w] # "nil"
         /\ \A i \in 1 .. (Len(calls'[w]) - 1) :
              calls'[w][i].call \in Range(Downstream) => calls'[w][i].res = "ok"]_vars

\* the causes of an error, read off a worker that has returned
HostNotFound(w) == host[w] = NilInst
HostIDNotInt64(w) == host[w] # NilInst /\ HostIDOf(w).t # "int64"
InnerIPNotString(w) == host[w] # NilInst /\ ~InnerIPIsString(w)
DownstreamFailed(w) ==
    /\ calls[w] # <<>>
    /\ calls[w][Len(calls[w])].call \in Range(Downstream)
    /\ calls[w][Len(calls[w])].res # "ok"

ReturnedError(w) == pc[w] = "returned" /\ ret[w] # "nil"

\* C16 as stated: Analyze returns a non-nil error only when the host is not
\* found, the host id is not an int64, or a call of steps 4-6 fails, and nil
\* in every other case, whatever the shape of the record's inner and outer
\* ip. Violated: a record whose inner ip is not a string ends the call with
\* the error "get host innerIp failed".
C16_ErrorOnlyForListedCauses ==
    \A w \in Workers :
        ReturnedError(w) => HostNotFound(w) \/ HostIDNotInt64(w) \/ DownstreamFailed(w)

\* C16 amended: Analyze returns a non-nil error only when the host is not
\* found, the host id is not an int64, the record's inner ip is not a string,
\* or a call of steps 4-6 fails; in every other case, whatever the shape of
\* the record's outer ip, it returns nil.
C16_ErrorOnlyForCauses ==
    \A w \in Workers :
        /\ ReturnedError(w) =>
             HostNotFound(w) \/ HostIDNotInt64(w) \/ InnerIPNotString(w) \/ DownstreamFailed(w)
        /\ (pc[w] = "returned" /\ (HostNotFound(w) \/ HostIDNotInt64(w) \/ InnerIPNotString(w))) =>
             ret[w] # "nil"

\* C16 witness: a message whose record has neither a string inner ip nor a
\* string outer ip has ended with the inner-ip error after its snapshot write
C16_Witness ==
    \E w \in Workers :
        /\ pc[w] = "returned"
        /\ ret[w] = "get host innerIp failed"
        /\ CallNames(w) = <<"Set">>
        /\ HostIDOf(w).t = "int64"
        /\ InstGet(insts[host[w]], "bk_host_outerip").t # "string"

\* the call UpdateInstance of w has been issued and has succeeded
Persisted(w) ==
    \E i \in DOMAIN calls[w] : calls[w][i].call = "UpdateInstance" /\ calls[w][i].res = "ok"

\* the last call of w is an UpdateInstance that failed
PersistFailed(w) ==
    /\ calls[w] # <<>>
    /\ calls[w][Len(calls[w])].call = "UpdateInstance"
    /\ calls[w][Len(calls[w])].res # "ok"

\* C17: when UpdateInstance answers with a transport error or Result = false,
\* Analyze returns a non-nil error at once: the step changes no cached record,
\* no stored row and no audit entry, and the message takes no further step
\* (no clone, no copyVal, no audit call); a cached record changes only in the
\* copyVal of a message whose UpdateInstance has succeeded.
C17_PersistFailureLeavesRecord ==
    [][/\ \A w \in Workers :
            /\ (pc[w] = "UpdateInstance" /\ Steps(w) /\ PersistFailed(w)') =>
                 /\ pc'[w] = "returned"
                 /\ ret'[w] # "nil"
                 /\ insts' = insts
                 /\ db' = db
                 /\ auditLog' = auditLog
            /\ PersistFailed(w) =>
                 /\ pc[w] = "returned"
                 /\ pc'[w] = "returned"
                 /\ calls'[w] = calls[w]
                 /\ preData'[w] = EmptyMap
                 /\ auditLog'[w] = NoAudit
       /\ \A ref \in DOMAIN insts :
            (ref \in DOMAIN insts' /\ insts'[ref] # insts[ref]) =>
                \E w \in Workers :
                    /\ pc[w] = "copyVal"
                    /\ Steps(w)
                    /\ host[w] = ref
                    /\ Persisted(w)]_vars

\* C17 witness: a message that needed an update of bk_mem from 100 to 200 has
\* returned the error of a Result = false answer; the record still holds 100
\* and no audit entry exists
C17_Witness ==
    \E w \in Workers :
        /\ pc[w] = "returned"
        /\ ret[w] = "UpdateInstacne http response error"
        /\ CallNames(w) = <<"Set", "TryAccept", "UpdateInstance">>
        /\ setter[w]["bk_mem"] = U64(200)
        /\ InstGet(insts[host[w]], "bk_mem") = I64(100)
        /\ auditLog[w] = NoAudit

\* w has returned after a failed call of steps 4-6
FailedInPipeline(w) == pc[w] = "returned" /\ DownstreamFailed(w)

\* C18: when a message fails at one of steps 4-6, the cached host records are
\* what they were before the message was processed. Stated for a message that
\* is the only one to have persisted anything: its record equals the clone
\* taken before copyVal. Violated: a failure of GetHostByID,
\* GetHostModuleRelation, GetAuditLogHeader or SaveAuditLog comes after
\* copyVal has written the candidate values into the record.
C18_FailureLeavesCache ==
    \A w \in Workers :
        (/\ FailedInPipeline(w)
         /\ \A x \in Workers \ {w} : ~Persisted(x)) =>
            /\ preData[w] # EmptyMap => insts[host[w]] = preData[w]
            /\ preData[w] = EmptyMap => ~HoldsCandidate(w)

\* the positions of an Analyze call after the snapshot-cache write
AfterSet ==
    {"needToUpdate", "TryAccept", "UpdateInstance", "clone", "copyVal", "GetHostByID",
     "GetHostModuleRelation", "GetAuditLogHeader", "SaveAuditLog"}

\* the key of the snapshot of the host the worker resolved
SnapKey(w) == RedisSnapKeyPrefix \o FormatInt(HostIDOf(w).v)

\* the number of snapshot-cache writes among the calls of w
SetCount(w) == Cardinality({i \in DOMAIN calls[w] : calls[w][i].call = "Set"})

\* C19: a message whose host is resolved with an int64 id makes exactly one
\* write to the snapshot cache, under the key prefix + host id with the
\* 10-minute expiry, as its first call and before change detection, whether or
\* not the update then is needed, admitted or successful; whether the write
\* succeeds or fails, Analyze goes on to change detection with no return value
\* set, and the outcome of the detection is that of the record and the message.
C19_OneSnapshotWrite ==
    [][\A w \in Workers :
         /\ (pc[w] = "resolved" /\ Steps(w) /\ HostIDOf(w).t = "int64") =>
              /\ calls[w] = <<>>
              /\ \E res \in {"ok", "err"} : calls'[w] = <<Call("Set", SnapKey(w), res)>>
              /\ pc'[w] = "needToUpdate"
              /\ ret'[w] = "running"
              /\ IF calls'[w][1].res = "ok"
                 THEN /\ SnapKey(w) \in DOMAIN redis'
                      /\ redis'[SnapKey(w)].expiry = SnapshotExpiry
                      /\ redis'[SnapKey(w)].data.mesg = mesg[w]
                      /\ \A k \in (DOMAIN redis) \ {SnapKey(w)} : redis'[k] = redis[k]
                 ELSE redis' = redis
         /\ (pc[w] # "resolved" /\ Steps(w)) => redis' = redis
         /\ (pc'[w] \in AfterSet
               \/ (pc'[w] = "returned" /\ host'[w] # NilInst /\ HostIDOf(w)'.t = "int64")) =>
              /\ SetCount(w)' = 1
              /\ calls'[w][1].call = "Set"
         /\ (pc[w] = "needToUpdate" /\ Steps(w) /\ InnerIPIsString(w)) =>
              (pc'[w] = "TryAccept") = Differs(w, CandidateOf(w))]_vars

\* C19 witness: the snapshot write of a message failed, the snapshot cache
\* is empty, and the message was applied and audited all the same
C19_Witness ==
    \E w \in Workers :
        /\ pc[w] = "returned"
        /\ ret[w] = "nil"
        /\ calls[w][1] = Call("Set", "cc:v3:snapshot:1", "err")
        /\ CallNames(w) = FullPath
        /\ redis = EmptyMap

\* the calls of steps 4-6 that w has issued, in the order of issue
IsDownstream(c) == c.call \in Range(Downstream)
DownCalls(w) == SelectSeq(calls[w], IsDownstream)

\* the last call of w
LastCall(w) == calls[w][Len(calls[w])]

\* the calls of w are issued in the fixed order, each at most once, each after
\* the success of all earlier ones, and the audit entry only after a
\* successful UpdateInstance
OrderedCalls(w) ==
    /\ Len(DownCalls(w)) <= Len(Downstream)
    /\ \A i \in DOMAIN DownCalls(w) :
         /\ DownCalls(w)[i].call = Downstream[i]
         /\ i < Len(DownCalls(w)) => DownCalls(w)[i].res = "ok"
    /\ (\E i \in DOMAIN calls[w] : calls[w][i].call = "SaveAuditLog") => Persisted(w)

\* the outcomes of a returned Analyze call
NotFoundOutcome(w) == HostNotFound(w) /\ calls[w] = <<>> /\ ret[w] # "nil"
HostIDOutcome(w) == HostIDNotInt64(w) /\ calls[w] = <<>> /\ ret[w] # "nil"
InnerIPOutcome(w) == InnerIPNotString(w) /\ CallNames(w) = <<"Set">> /\ ret[w] # "nil"
NoChangeOutcome(w) == CallNames(w) = <<"Set">> /\ ret[w] = "nil"
RateLimitedOutcome(w) ==
    /\ CallNames(w) = <<"Set", "TryAccept">>
    /\ LastCall(w).res = "false"
    /\ ret[w] = "nil"
PersistFailedOutcome(w) == PersistFailed(w) /\ ret[w] # "nil"
AuditFailedOutcome(w) ==
    /\ Persisted(w)
    /\ LastCall(w).call \in Range(Downstream) \ {"UpdateInstance"}
    /\ LastCall(w).res # "ok"
AuditedOKOutcome(w) == CallNames(w) = FullPath /\ LastCall(w).res = "ok" /\ ret[w] = "nil"

\* how many of the six outcomes of the claim apply to w
SixOutcomes(w) ==
    (IF NotFoundOutcome(w) THEN 1 ELSE 0) + (IF NoChangeOutcome(w) THEN 1 ELSE 0)
    + (IF RateLimitedOutcome(w) THEN 1 ELSE 0) + (IF PersistFailedOutcome(w) THEN 1 ELSE 0)
    + (IF AuditFailedOutcome(w) THEN 1 ELSE 0) + (IF AuditedOKOutcome(w) THEN 1 ELSE 0)

\* how many of the outcomes of the code apply to w
AllOutcomes(w) ==
    SixOutcomes(w) + (IF HostIDOutcome(w) THEN 1 ELSE 0) + (IF InnerIPOutcome(w) THEN 1 ELSE 0)

HostMessage == [cloudid |-> "0", ip |-> IPOf(1), addrs |-> <<>>]

\* the telemetry of two snapshots of that host: 200 MiB and 300 MiB
Snapshot(mib) == [cores |-> <<4>>, memtotal |-> mib * 1048576, hostname |-> ""]
RacePayloads == {Snapshot(200), Snapshot(300)}

\* The state after the startup refresh: the active slot holds the generation
\* scanned from the table, the refresh goroutine waits for its first tick.
\* Every worker has parsed a snapshot of the one host of the table and is
\* about to resolve it: the first worker holds the 200 MiB snapshot, the
\* others either; the limiter holds a token for each of them.
InitRace ==
    /\ db = <<Row(1)>>
    /\ gens = <<StoreRows(EmptyMap, 1, db, 0)>>
    /\ insts = AllocRows(<<>>, 1, db, 0)
    /\ cache = [b \in BOOLEAN |-> IF b THEN NilCache ELSE 1]
    /\ flag = FALSE
    /\ cachelock = "unlocked"
    /\ rpc = "tick"
    /\ hostcache = NilCache
    /\ start = 0
    /\ ticks = 0
    /\ pc = [w \in Workers |-> "getCache"]
    /\ mesg = [w \in Workers |-> HostMessage]
    /\ ips = [w \in Workers |-> getIPS(HostMessage)]
    /\ idx = [w \in Workers |-> 1]
    /\ probed = [w \in Workers |-> NilCache]
    /\ host = [w \in Workers |-> NilInst]
    /\ InitDetect
    /\ tele \in {t \in [Workers -> RacePayloads] : t[1] = Snapshot(200)}
    /\ Constructed([NoConfig EXCEPT !.Burst = <<ToString(Cardinality(Workers))>>])
    /\ InitPipeline

NextRace ==
    \/ FetchBegin
    \/ FetchPage
    \/ Tick
    \/ PeriodicLock
    \/ WriteSlot
    \/ FlipFlag
    \/ PeriodicUnlock
    \/ \E w \in Workers : getCache(w)
    \/ \E w \in Workers : get(w)
    \/ \E w \in Workers : find(w)
    \/ \E w \in Workers : setCache(w)
    \/ \E w \in Workers : ReturnNotFound(w)
    \/ \E w \in Workers : RedisSet(w)
    \/ \E w \in Workers : Detect(w)
    \/ \E w \in Workers : TryAccept(w)
    \/ \E w \in Workers : UpdateInstance(w)
    \/ \E w \in Workers : Clone(w)
    \/ \E w \in Workers : CopyVal(w)
    \/ \E w \in Workers : GetHostByID(w)
    \/ \E w \in Workers : GetHostModuleRelation(w)
    \/ \E w \in Workers : GetAuditLogHeader(w)
    \/ \E w \in Workers : SaveAuditLog(w)

SpecRace == InitRace /\ [][NextRace]_vars

(***************************************************************************)
(* Properties of concurrent messages and of the refresh.                   *)
(***************************************************************************)
\* the row of the table with the host id of the record w resolved
StoreRowOf(w) == RowByID(db, HostIDOf(w).v)

\* C21: nothing serializes two messages for one host between change detection
\* and the mutation of the record: whatever the position of the other
\* workers, a worker at change detection, at UpdateInstance, at the clone or
\* at copyVal can take its step, copyVal writes the candidate of its own
\* message over whatever the record holds, and only a refresh scan builds
\* records from the rows of the store.
C21_NotSerialized ==
    [][/\ \A w \in Workers :
            /\ (pc[w] = "needToUpdate" /\ ~Crashed) => ENABLED Detect(w)
            /\ (pc[w] = "UpdateInstance" /\ ~Crashed) => ENABLED UpdateInstance(w)
            /\ (pc[w] = "clone" /\ ~Crashed) => ENABLED Clone(w)
            /\ (pc[w] = "copyVal" /\ ~Crashed) => ENABLED CopyVal(w)
            /\ (pc[w] = "copyVal" /\ Steps(w)) =>
                 \A k \in DOMAIN setter[w] : IfaceEq(InstGet(insts'[host[w]], k), setter[w][k])
       /\ \A r \in (DOMAIN insts') \ (DOMAIN insts) :
            r[1] = "fetch" => insts'[r] = db[r[3]]]_vars

\* C21 witness: both messages passed change detection against 100 MiB, both
\* were persisted and audited, the store holds the 300 MiB written last and
\* the cached record both resolved holds 200 MiB
C21_Witness ==
    /\ \A w \in Workers : pc[w] = "returned" /\ ret[w] = "nil" /\ CallNames(w) = FullPath
    /\ \A w \in Workers : host[w] = host[1]
    /\ \A w \in Workers : preData[w]["bk_mem"] = I64(100)
    /\ StoreRowOf(1)["bk_mem"].v = 300
    /\ InstGet(insts[host[1]], "bk_mem").v = 200

(***************************************************************************)
(* The construction of the collector and its rate limiter on their own.    *)
(***************************************************************************)
\* calls of TryAccept followed within one stretch without time elapsing
MaxCalls == 4
\* refill intervals that can elapse between two calls
MaxIntervals == 2

\* the strings an operator can have configured: nothing, no number, numbers
\* below the floor, and numbers above it
ConfigStrings ==
    { <<>>, <<"a">>, <<"4", "x">>, <<"0">>, <<"-", "3">>, <<"2">>, <<"+", "3">>, <<"1", "2">> }

\* before NewHostSnap: the configuration has been read, nothing is built
InitLimiter ==
    /\ db = <<>>
    /\ cache = [b \in BOOLEAN |-> NilCache]
    /\ flag = FALSE
    /\ cachelock = "unlocked"
    /\ gens = <<>>
    /\ insts = <<>>
    /\ rpc = "new"
    /\ hostcache = NilCache
    /\ start = 0
    /\ ticks = 0
    /\ InitWorkers
    /\ changeRangePercent = 0
    /\ src = EmptyMap
    /\ toCompare = EmptyMap
    /\ changed = FALSE
    /\ npc = "idle"
    /\ tele = [w \in Workers |-> NoTelemetry]
    /\ InitPipeline
    /\ snapConfig \in [QPS : ConfigStrings, Burst : ConfigStrings, ChangeRangePercent : ConfigStrings]
    /\ qps = 0
    /\ burst = 0
    /\ tokens = 0
    /\ answers = <<>>
    /\ startTokens = 0

\* NewHostSnap: rateLimit, changeRangePercent, and go h.fetchDBLoop()
NewHostSnap ==
    /\ rpc = "new"
    /\ qps' = getRateLimiter(snapConfig.QPS, snapConfig.Burst).qps
    /\ burst' = getRateLimiter(snapConfig.QPS, snapConfig.Burst).burst
    /\ tokens' = getRateLimiter(snapConfig.QPS, snapConfig.Burst).tokens
    /\ startTokens' = tokens'
    /\ changeRangePercent' =
           getConfigIntVal(snapConfig.ChangeRangePercent, "hostsnap.changeRangePercentVal",
                           defaultChangeRangePercent, minChangeRangePercent)
    /\ rpc' = "spawned"
    /\ UNCHANGED <<pending, svc, db, insts, cacheVars, hostcache, start, ticks, workerVars, src, toCompare,
                   changed, npc, tele, setter, calls, ret, preData, curData, bizID, auditLog,
                   redis, snapConfig, answers>>

\* h.rateLimit.TryAccept() called by some message: it answers at once and
\* takes a token when it accepts
RateLimitTryAccept ==
    /\ rpc # "new"
    /\ Len(answers) < MaxCalls
    /\ answers' = Append(answers, Accepts(tokens))
    /\ tokens' = Take(tokens)
    /\ UNCHANGED <<pending, svc, db, insts, cacheVars, refreshVars, workerVars, detectVars, tele, setter, calls,
                   ret, preData, curData, bizID, auditLog, redis, snapConfig, qps, burst,
                   startTokens>>

\* the bucket after n refill intervals: one token an interval, up to the
\* capacity
Refilled(n) == IF tokens + n > burst THEN burst ELSE tokens + n

\* time elapses: one or more full refill intervals
Refill ==
    /\ rpc # "new"
    /\ \E n \in 1..MaxIntervals : tokens' = Refilled(n)
    /\ answers' = <<>>
    /\ startTokens' = tokens'
    /\ UNCHANGED <<pending, svc, db, insts, cacheVars, refreshVars, workerVars, detectVars, tele, setter, calls,
                   ret, preData, curData, bizID, auditLog, redis, snapConfig, qps, burst>>

NextLimiter ==
    \/ NewHostSnap
    \/ RateLimitTryAccept
    \/ Refill

SpecLimiter == InitLimiter /\ [][NextLimiter]_vars

\* the burst the configuration asks for
ConfiguredBurst == getConfigIntVal(snapConfig.Burst, "hostsnap.burst", defaultRateLimiterBurst, 1)

\* C22: the limiter of the collector has the configured burst B as its
\* capacity and starts full; of the calls of TryAccept that follow one another
\* with no time elapsing, as many accept as the bucket held tokens (B for a
\* full bucket) and every further one declines; once a refill interval has
\* elapsed the bucket holds a token, so the next call accepts; a call is never
\* made to wait; the bucket always holds between 0 and B tokens.
C22_LimiterContract ==
    rpc # "new" =>
        /\ burst = ConfiguredBurst
        /\ tokens \in 0..burst
        /\ startTokens \in 1..burst
        /\ \A i \in DOMAIN answers : answers[i] = (i <= startTokens)
        /\ tokens = (IF Len(answers) <= startTokens THEN startTokens - Len(answers) ELSE 0)
        /\ Len(answers) < MaxCalls => ENABLED RateLimitTryAccept

\* C22 witness: a limiter configured with the burst 3 has accepted three
\* calls in a row and declined the fourth
C22_Witness ==
    /\ snapConfig.Burst = <<"+", "3">>
    /\ snapConfig.QPS = <<"1", "2">>
    /\ burst = 3
    /\ startTokens = 3
    /\ answers = <<TRUE, TRUE, TRUE, FALSE>>
    /\ tokens = 0

\* what getConfigIntVal has to return for a configured string
Configured(cs, defaultValue, minValue) ==
    IF ~StrconvAtoi(cs)[1] THEN defaultValue
    ELSE IF StrconvAtoi(cs)[2] >= minValue THEN StrconvAtoi(cs)[2]
    ELSE minValue

\* C27: each configured value is the configured integer when the string
\* parses and is at least the floor, the default (40, 100, 10) when the string
\* does not parse, and the floor 1 when the parsed integer is below it; so the
\* QPS, the burst and the tolerance percentage are at least 1 whatever is
\* configured.
C27_ConfigFloors ==
    rpc # "new" =>
        /\ qps = Configured(snapConfig.QPS, 40, 1)
        /\ burst = Configured(snapConfig.Burst, 100, 1)
        /\ changeRangePercent = Configured(snapConfig.ChangeRangePercent, 10, 1)
        /\ qps >= 1 /\ burst >= 1 /\ changeRangePercent >= 1
        /\ snapConfig.ChangeRangePercent \in {<<>>, <<"a">>, <<"4", "x">>} => changeRangePercent = 10
        /\ snapConfig.ChangeRangePercent \in {<<"0">>, <<"-", "3">>} => changeRangePercent = 1
        /\ snapConfig.ChangeRangePercent = <<"1", "2">> => changeRangePercent = 12
        /\ snapConfig.ChangeRangePercent = <<"+", "3">> => changeRangePercent = 3

\* C27 witness: a QPS that is no number, a burst of 0 and a tolerance of -3
\* have become 40, 1 and 1
C27_Witness ==
    /\ rpc # "new"
    /\ snapConfig = [QPS |-> <<"a">>, Burst |-> <<"0">>, ChangeRangePercent |-> <<"-", "3">>]
    /\ qps = 40
    /\ burst = 1
    /\ changeRangePercent = 1

(***************************************************************************)
(* Properties of the candidate ips and of the lookups.                     *)
(***************************************************************************)
NotLoopback(ip) == ~HasLoopbackPrefix(ip)

\* the ip parts of the interface addresses of a message, in reported order
StrippedAddrs(m) == [i \in DOMAIN m.addrs |-> m.addrs[i].ip]

\* the candidates the claim asks for: the top-level ip unless it is a
\* loopback address, then the interface addresses that are none
ExpectedIPS(m) ==
    (IF NotLoopback(m.ip) THEN <<m.ip>> ELSE <<>>) \o SelectSeq(StrippedAddrs(m), NotLoopback)

\* the key of the candidate a worker is probing
ProbedKey(w) == CacheKey(mesg[w].cloudid, ips[w][idx[w]])

\* C23: the candidates of a message are its top-level ip, unless it starts
\* with 127.0.0., followed by the interface addresses in reported order
\* without their subnet suffix, none starting with 127.0.0.; the lookup starts
\* with the first candidate, every probe reads the generation getCache just
\* returned with the key cloudid::ip of the current candidate, a miss moves to
\* the next candidate, and a hit returns that record and ends the probing.
C23_CandidateOrder ==
    [][\A w \in Workers :
         /\ (pc[w] = "idle" /\ Steps(w)) =>
              /\ ips'[w] = ExpectedIPS(mesg'[w])
              /\ \A i \in DOMAIN ips'[w] : NotLoopback(ips'[w][i])
              /\ idx'[w] = 1
         /\ (pc[w] = "getCache" /\ Steps(w)) =>
              /\ probed'[w] = cache[flag]
              /\ idx'[w] = idx[w]
              /\ pc'[w] = "get"
         /\ (pc[w] = "get" /\ Steps(w) /\ probed[w] # NilCache) =>
              IF ProbedKey(w) \in DOMAIN gens[probed[w]]
              THEN /\ host'[w] = gens[probed[w]][ProbedKey(w)]
                   /\ pc'[w] = "resolved"
                   /\ idx'[w] = idx[w]
              ELSE /\ host'[w] = NilInst
                   /\ idx'[w] = idx[w] + 1
                   /\ pc'[w] = IF idx[w] < Len(ips[w]) THEN "getCache" ELSE "find"
         /\ (pc[w] \notin {"idle", "getCache", "get"}) =>
              /\ pc'[w] \notin {"getCache", "get"}
              /\ idx'[w] = idx[w]]_vars

\* C23 witness: a message with the top-level ip 10.0.0.1 and the interface
\* address 10.0.0.2/24 is resolved by its first candidate to the record of
\* 10.0.0.1 although the generation holds a record for 10.0.0.2 as well
C23_Witness ==
    \E w \in Workers :
        /\ pc[w] = "resolved"
        /\ ips[w] = <<IPOf(1), IPOf(2)>>
        /\ idx[w] = 1
        /\ InstGet(insts[host[w]], "bk_host_innerip") = Str(IPOf(1))
        /\ CacheKey("0", IPOf(2)) \in DOMAIN gens[probed[w]]

(***************************************************************************)
(* Two resolutions of one message, with the refresh running.               *)
(***************************************************************************)
\* a message of the host (cloud 0, inner ip 10.0.0.1) with an interface
\* address, and one that writes the cloud id 0 with two digits
LookupMessages ==
    { [cloudid |-> "0", ip |-> IPOf(1), addrs |-> <<[ip |-> IPOf(2), mask |-> "/24"]>>],
      [cloudid |-> "00", ip |-> IPOf(1), addrs |-> <<>>] }

\* Every worker has parsed the same message and is about to resolve it.
InitLookup ==
    /\ \E n \in 0..MaxHosts : db = [i \in 1..n |-> Row(i)]
    /\ InitCache
    /\ \E m \in LookupMessages :
         /\ mesg = [w \in Workers |-> m]
         /\ ips = [w \in Workers |-> getIPS(m)]
    /\ pc = [w \in Workers |-> "getCache"]
    /\ idx = [w \in Workers |-> 1]
    /\ probed = [w \in Workers |-> NilCache]
    /\ host = [w \in Workers |-> NilInst]
    /\ InitDetect
    /\ tele = [w \in Workers |-> NoTelemetry]
    /\ Constructed(NoConfig)
    /\ InitPipeline

NextLookup ==
    \/ StartupLock
    \/ FetchBegin
    \/ FetchPage
    \/ StartupInstall
    \/ StartupUnlock
    \/ Tick
    \/ PeriodicLock
    \/ WriteSlot
    \/ FlipFlag
    \/ PeriodicUnlock
    \/ \E w \in Workers : getCache(w)
    \/ \E w \in Workers : get(w)
    \/ \E w \in Workers : find(w)
    \/ \E w \in Workers : setCache(w)

SpecLookup == InitLookup /\ [][NextLookup]_vars

\* the key fetch and getHostByVal file a row under
RowKey(row) ==
    CacheKey(Sprint(InstGet(row, "bk_cloud_id")), Sprint(InstGet(row, "bk_host_innerip")))

\* the record w built after a miss is in the active generation: no refresh
\* has been installed since its insertion
StillInserted(w) ==
    /\ pc[w] = "resolved"
    /\ host[w] = <<"db", w>>
    /\ cache[flag] # NilCache
    /\ \E k \in DOMAIN gens[cache[flag]] : gens[cache[flag]][k] = host[w]

\* a resolution of the message of w that starts now hits the active generation
WouldHit(w) ==
    \E i \in DOMAIN ips[w] : CacheKey(mesg[w].cloudid, ips[w][i]) \in DOMAIN gens[cache[flag]]

\* C24: after a miss of every candidate and a lookup that returned rows,
\* getHostByVal returns a record built from a returned row, and the generation
\* active at the insertion maps the key of that row's cloud id and inner ip to
\* that record; as long as no refresh is installed, a repeated resolution of
\* the same message hits the cache. Violated: the record is filed under the
\* cloud id as the store prints it, the probe uses the cloud id as the message
\* writes it, and a message that writes 0 as 00 misses again.
C24_InsertedAndHitAgain ==
    [][\A w \in Workers :
         /\ (pc[w] = "setCache" /\ Steps(w)) =>
              /\ \E i \in DOMAIN db : insts[host[w]] = db[i]
              /\ RowKey(insts[host[w]]) \in DOMAIN gens'[cache[flag]]
              /\ gens'[cache[flag]][RowKey(insts[host[w]])] = host[w]
              /\ pc'[w] = "resolved"
         /\ StillInserted(w) => WouldHit(w)
         /\ StillInserted(w)' => WouldHit(w)']_vars

(***************************************************************************)
(* The refresh goroutine on its own, over larger tables.                   *)
(***************************************************************************)
\* rows of the tables scanned here: more than two pages
MaxRows == 5

\* the tables of rows with pairwise distinct keys, in any order
DistinctTables ==
    UNION { { [i \in 1..n |-> Row(f[i])] :
                f \in {g \in [1..n -> 1..MaxRows] : \A i, j \in 1..n : i # j => g[i] # g[j]} } :
            n \in 0..MaxRows }

\* no message arrives
InitIdle ==
    /\ InitCache
    /\ InitWorkers
    /\ InitDetect
    /\ tele = [w \in Workers |-> NoTelemetry]
    /\ Constructed(NoConfig)
    /\ InitPipeline

InitScan == db \in DistinctTables /\ InitIdle

\* every query of every scan succeeds
NextScan ==
    \/ StartupLock
    \/ FetchBegin
    \/ FetchPageAll
    \/ StartupInstall
    \/ StartupUnlock
    \/ Tick
    \/ PeriodicLock
    \/ WriteSlot
    \/ FlipFlag
    \/ PeriodicUnlock

SpecScan == InitScan /\ [][NextScan]_vars

InitRefresh == (\E n \in 0..MaxRows : db = [i \in 1..n |-> Row(i)]) /\ InitIdle

\* any query of any scan may fail
NextRefresh ==
    \/ StartupLock
    \/ FetchBegin
    \/ FetchPage
    \/ StartupInstall
    \/ StartupUnlock
    \/ Tick
    \/ PeriodicLock
    \/ WriteSlot
    \/ FlipFlag
    \/ PeriodicUnlock

\* the goroutine running fetchDBLoop keeps running, and its timer keeps ticking
SpecRefresh == InitRefresh /\ [][NextRefresh]_vars /\ WF_vars(NextRefresh)

\* C25: over a table of N rows with pairwise distinct keys and with every
\* query succeeding, fetch() returns a generation of exactly N entries, one
\* per row and holding that row, whatever N is against the page size.
C25_ExactlyN ==
    rpc = "fetchReturn" =>
        /\ Cardinality(DOMAIN gens[hostcache]) = Len(db)
        /\ \A i \in DOMAIN db :
             /\ RowKey(db[i]) \in DOMAIN gens[hostcache]
             /\ insts[gens[hostcache][RowKey(db[i])]] = db[i]

\* C25 witness: fetch() returns over a table of two full pages, after the
\* query that found no third page
C25_Witness ==
    /\ rpc = "fetchReturn"
    /\ Len(db) = 2 * limit
    /\ start = 2 * limit
    /\ Cardinality(DOMAIN gens[hostcache]) = 2 * limit

\* a row of a page of the table the generation g lacks: a query of its scan failed
Partial(g) == \E i \in DOMAIN db : RowKey(db[i]) \notin DOMAIN gens[g]

\* C26: fetch() returns whatever queries fail; an iteration keeps every entry
\* the earlier iterations stored; and the generation fetch() returned,
\* partial or not, is the one fetchDBLoop makes the active generation.
C26_PartialScanInstalled ==
    /\ [][/\ (rpc = "fetchPage" /\ rpc' \in {"fetchPage", "fetchReturn"}) =>
               /\ hostcache' = hostcache
               /\ \A k \in DOMAIN gens[hostcache] :
                    k \in DOMAIN gens'[hostcache] /\ gens'[hostcache][k] = gens[hostcache][k]
          /\ rpc = "fetchReturn" => ENABLED (StartupInstall \/ PeriodicLock)
          /\ (rpc = "fetchReturn" /\ rpc' = "startupUnlock") => cache'[flag'] = hostcache
          /\ (rpc = "writeSlot" /\ rpc' # rpc) => cache'[~flag] = hostcache /\ hostcache' = hostcache
          /\ (rpc = "flipFlag" /\ rpc' # rpc) => cache'[flag'] = hostcache]_vars
    /\ (rpc = "fetchPage") ~> (rpc = "fetchReturn")
    /\ (rpc = "fetchReturn") ~> (cache[flag] # NilCache /\ rpc \in {"startupUnlock", "unlock"})

\* C26 witness: a periodic refresh has installed a generation that holds the
\* first page of a table of two pages and more, the query of the second page
\* having failed
C26_Witness ==
    /\ rpc = "unlock"
    /\ Len(db) > 2 * limit
    /\ Partial(cache[flag])
    /\ Cardinality(DOMAIN gens[cache[flag]]) = limit

(***************************************************************************)
(* parseSetter on its own, with the disk partitions of the telemetry.      *)
(***************************************************************************)
\* one GiB in bytes: x >> 10 >> 10 >> 10 is x \div GiB
GiB == 1073741824

\* one MiB in bytes: x >> 10 >> 10 is x \div MiB
MiB == 1048576

\* disk: for every data.disk.usage.#.total, disk += total >> 10 >> 10 >> 10
RECURSIVE DiskGB(_)
DiskGB(totals) == IF totals = <<>> THEN 0 ELSE (Head(totals) \div GiB) + DiskGB(Tail(totals))

\* parseSetter, for the fields bk_cpu, bk_mem, bk_host_name and bk_disk
parseSetterDisk(val, innerIP, outerIP) ==
    Apply(parseSetter(val, innerIP, outerIP), [bk_disk |-> U64(DiskGB(val.disktotals))])

\* the cores of the reported CPU entries
CoreReports == { <<>>, <<1>>, <<4>>, <<2, 2>>, <<4, 8>>, <<1, 2, 4>> }

\* the reported memory, in bytes
MemReports == { 0, MiB - 1, MiB, 101 * MiB + 5, 2047 * MiB }

\* the totals of the reported partitions, in bytes: none, whole GiB, and
\* partitions with a broken GiB
DiskReports ==
    { <<>>, <<GiB>>, <<GiB + 536870912>>, <<536870912, 536870912>>, <<GiB, 536870912>>,
      <<644245094, 644245094, 644245094>>, <<GiB - 1, GiB>> }

ParseInputs ==
    [cores : CoreReports, memtotal : MemReports, hostname : {"", " web1 "},
     disktotals : DiskReports]

\* each worker holds the data object of a message
InitParse ==
    /\ \E n \in 0..MaxHosts : db = [i \in 1..n |-> Row(i)]
    /\ InitCache
    /\ InitWorkers
    /\ InitDetect
    /\ tele \in {t \in [Workers -> ParseInputs] : \A w \in Workers : w # 1 => t[w].hostname = "" /\ t[w].memtotal = MiB /\ t[w].cores = <<4>>}
    /\ Constructed(NoConfig)
    /\ InitPipeline

\* setter := parseSetter(&val, innerip, outip)
ParseSetter(w) ==
    /\ pc[w] = "idle"
    /\ pc' = [pc EXCEPT ![w] = "parsed"]
    /\ setter' = [setter EXCEPT ![w] = parseSetterDisk(tele[w], mesg[w].ip, "")]
    /\ UNCHANGED <<pending, svc, limiterVars, db, insts, cacheVars, refreshVars, detectVars, mesg, ips, idx, probed, host,
                   tele, tokens, calls, ret, preData, curData, bizID, auditLog, redis>>

NextParse == \E w \in Workers : ParseSetter(w)

SpecParse == InitParse /\ [][NextParse]_vars

\* the sum of the totals of the partitions, in bytes
RECURSIVE SumTotals(_)
SumTotals(totals) == IF totals = <<>> THEN 0 ELSE Head(totals) + SumTotals(Tail(totals))

\* C28: parseSetter reports bk_disk as the sum of the partitions' totals
\* floored to whole GiB, bk_mem as the memory floored to whole MiB and bk_cpu
\* as the sum of the cores. Violated for bk_disk: every partition is floored
\* to whole GiB before it is added.
C28_DiskFloorOfSum ==
    \A w \in Workers :
        pc[w] = "parsed" =>
            /\ setter[w].bk_disk = U64(SumTotals(tele[w].disktotals) \div GiB)
            /\ setter[w].bk_mem = U64(tele[w].memtotal \div MiB)
            /\ setter[w].bk_cpu = I64(SumCores(tele[w].cores))

(***************************************************************************)
(* Properties of the admission tokens.                                     *)
(***************************************************************************)
\* the TryAccept calls the worker has made
TryAcceptCalls(w) == {i \in DOMAIN calls[w] : calls[w][i].call = "TryAccept"}

\* the limiter has admitted the worker's message
Admitted(w) == \E i \in TryAcceptCalls(w) : calls[w][i].res = "ok"

\* C29: the bucket loses a token only in the TryAccept of a message that has
\* resolved its host and for which needToUpdate has just returned true, and
\* then exactly one; a message that resolves no host or detects no change
\* returns without a TryAccept call; a message calls TryAccept at most once,
\* and no later step of an admitted message, failing or not, gives the token
\* back: the tokens missing from the bucket are the admitted messages.
C29_TokenPerAdmittedMessage ==
    [][/\ tokens' # tokens =>
            /\ tokens' = tokens - 1
            /\ \E w \in Workers :
                 /\ pc[w] = "TryAccept" /\ pc'[w] = "UpdateInstance"
                 /\ host[w] # NilInst
                 /\ ~Admitted(w) /\ Admitted(w)'
       /\ \A w \in Workers :
            /\ (pc'[w] = "TryAccept" /\ Steps(w)) =>
                 /\ pc[w] = "needToUpdate"
                 /\ host[w] # NilInst
                 /\ Differs(w, setter'[w])
                 /\ TryAcceptCalls(w) = {}
            /\ (pc[w] = "needToUpdate" /\ Steps(w) /\ ~Differs(w, setter'[w])) =>
                 pc'[w] = "returned" /\ TryAcceptCalls(w)' = {}
            /\ (pc[w] = "notfound" /\ Steps(w)) =>
                 pc'[w] = "returned" /\ TryAcceptCalls(w)' = {}
            /\ TryAcceptCalls(w)' # TryAcceptCalls(w) => pc[w] = "TryAccept"
            /\ Cardinality(TryAcceptCalls(w)') <= 1
            /\ pc[w] = "returned" => pc'[w] = "returned" /\ calls'[w] = calls[w]
       /\ tokens' = startTokens' - Cardinality({w \in Workers : Admitted(w)'})]_vars

\* C29 witness: one message is admitted and its persistence call fails, the
\* other finds nothing to update; one token is missing from the bucket
C29_Witness ==
    \E w, x \in Workers :
        /\ Admitted(w)
        /\ PersistFailed(w)
        /\ pc[w] = "returned"
        /\ pc[x] = "returned"
        /\ host[x] # NilInst
        /\ CallNames(x) = <<"Set">>
        /\ ret[x] = "nil"
        /\ tokens = startTokens - 1

(***************************************************************************)
(* Properties of an applied update across a refresh.                       *)
(***************************************************************************)
\* the record a resolution of the worker's host key gets from the active
\* generation, NilInst when the key is absent (the resolution then reads the
\* store)
ActiveRecordOf(w) == MapGet(gens[cache[flag]], RowKey(insts[host[w]]))

\* C30: when a refresh has installed a new generation between a worker's
\* resolution and its copyVal, the record the newly active generation holds
\* for the host key carries the values the worker applied, so that the same
\* snapshot is not persisted again. Violated: the scan of the new generation
\* can read the row before UpdateInstance writes it, and copyVal writes only
\* into the record of the generation the worker resolved in.
C30_AppliedSurvivesSwap ==
    [][\A w \in Workers :
         (/\ pc[w] = "copyVal" /\ Steps(w)
          /\ cache[flag] # probed[w]
          /\ \A x \in Workers \ {w} : ~Persisted(x)
          /\ ActiveRecordOf(w) # NilInst) =>
             \A k \in DOMAIN setter[w] :
                 IfaceEq(InstGet(insts'[ActiveRecordOf(w)], k), setter[w][k])]_vars

(***************************************************************************)
(* copyVal one set call at a time: two messages for one host.              *)
(***************************************************************************)
\* copyVal: one iteration of `for k, v := range a { b.set(k, v) }`, the keys
\* in the order the map yields them; set takes the record's lock for the one
\* assignment h.data[key] = value
HostInstSet(w) ==
    /\ ~Crashed
    /\ pc[w] = "copyVal"
    /\ LET todo == IF pending[w] = {} THEN DOMAIN setter[w] ELSE pending[w]
       IN  \E k \in todo :
             /\ insts' = [insts EXCEPT ![host[w]] = MapSet(@, k, setter[w][k])]
             /\ pending' = [pending EXCEPT ![w] = todo \ {k}]
             /\ pc' = [pc EXCEPT ![w] = IF todo = {k} THEN "GetHostByID" ELSE "copyVal"]
    /\ UNCHANGED <<svc, limiterVars, db, cacheVars, refreshVars, detectVars, mesg, ips, idx, probed, host,
                   tele, tokens, setter, calls, ret, preData, curData, bizID, auditLog, redis>>

\* a snapshot of the host that changes its cores, its memory and its name
FieldSnapshot == [cores |-> <<8>>, memtotal |-> 200 * 1048576, hostname |-> "web1"]

\* The state of InitRace with the first worker holding a snapshot that
\* changes three fields.
InitFields ==
    /\ db = <<Row(1)>>
    /\ gens = <<StoreRows(EmptyMap, 1, db, 0)>>
    /\ insts = AllocRows(<<>>, 1, db, 0)
    /\ cache = [b \in BOOLEAN |-> IF b THEN NilCache ELSE 1]
    /\ flag = FALSE
    /\ cachelock = "unlocked"
    /\ rpc = "tick"
    /\ hostcache = NilCache
    /\ start = 0
    /\ ticks = 0
    /\ pc = [w \in Workers |-> "getCache"]
    /\ mesg = [w \in Workers |-> HostMessage]
    /\ ips = [w \in Workers |-> getIPS(HostMessage)]
    /\ idx = [w \in Workers |-> 1]
    /\ probed = [w \in Workers |-> NilCache]
    /\ host = [w \in Workers |-> NilInst]
    /\ InitDetect
    /\ tele \in {t \in [Workers -> {FieldSnapshot, Snapshot(300)}] : t[1] = FieldSnapshot}
    /\ Constructed([NoConfig EXCEPT !.Burst = <<ToString(Cardinality(Workers))>>])
    /\ InitPipeline

NextFields ==
    \/ \E w \in Workers : getCache(w)
    \/ \E w \in Workers : get(w)
    \/ \E w \in Workers : RedisSet(w)
    \/ \E w \in Workers : Detect(w)
    \/ \E w \in Workers : TryAccept(w)
    \/ \E w \in Workers : UpdateInstance(w)
    \/ \E w \in Workers : Clone(w)
    \/ \E w \in Workers : HostInstSet(w)
    \/ \E w \in Workers : GetHostByID(w)
    \/ \E w \in Workers : GetHostModuleRelation(w)
    \/ \E w \in Workers : GetAuditLogHeader(w)
    \/ \E w \in Workers : SaveAuditLog(w)

SpecFields == InitFields /\ [][NextFields]_vars

\* the worker x is inside its copyVal loop and the map d holds some but not
\* all of the values x changes: a value x has set and x's clone did not hold,
\* and for a key x has still to set a value other than x's
PartlyApplied(d, x) ==
    /\ pc[x] = "copyVal"
    /\ pending[x] # {}
    /\ \E j \in (DOMAIN setter[x]) \ pending[x] :
         /\ IfaceEq(InstGet(d, j), setter[x][j])
         /\ ~IfaceEq(InstGet(preData[x], j), setter[x][j])
    /\ \E k \in pending[x] : ~IfaceEq(InstGet(d, k), setter[x][k])

\* C31: the clone a worker takes for its audit entry never holds a partly
\* applied update of another worker on the same record: all of that
\* message's values or none. Violated: copyVal takes the record's lock for
\* each set call, not for the loop, and clone() can run between two of them.
C31_CloneSeesAllOrNone ==
    [][\A w \in Workers :
         (pc[w] = "clone" /\ Steps(w)) =>
             \A x \in Workers \ {w} : host[x] = host[w] => ~PartlyApplied(preData'[w], x)]_vars

(***************************************************************************)
(* Messages without an address.                                            *)
(***************************************************************************)
\* a message without the ip field and without interfaces, one without the ip
\* field whose only address is a loopback address, one whose ip field and
\* only address are loopback addresses, and one with an interface address
\* that is only a mask
NoIPMessages ==
    { [cloudid |-> "0", ip |-> "", addrs |-> <<>>],
      [cloudid |-> "0", ip |-> "", addrs |-> <<[ip |-> "127.0.0.1", mask |-> "/8"]>>],
      [cloudid |-> "0", ip |-> "127.0.0.1", addrs |-> <<[ip |-> "127.0.0.53", mask |-> "/8"]>>],
      [cloudid |-> "0", ip |-> IPOf(1), addrs |-> <<[ip |-> "", mask |-> "/24"]>>] }

\* Analyze and getHostByVal for one of these messages:
\* `ips := getIPS(val); if len(ips) > 0 { ... } else { ... }`
AnalyzeNoIP(w) ==
    /\ ~Crashed
    /\ pc[w] = "idle"
    /\ \E m \in NoIPMessages :
         /\ mesg' = [mesg EXCEPT ![w] = m]
         /\ ips' = [ips EXCEPT ![w] = getIPS(m)]
         /\ pc' = [pc EXCEPT ![w] = IF Len(getIPS(m)) > 0 THEN "getCache" ELSE "notfound"]
    /\ idx' = [idx EXCEPT ![w] = 1]
    /\ probed' = [probed EXCEPT ![w] = NilCache]
    /\ host' = [host EXCEPT ![w] = NilInst]
    /\ UNCHANGED <<pending, svc, limiterVars, db, insts, detectVars, pipeVars, cacheVars, refreshVars>>

NextNoIP ==
    \/ StartupLock
    \/ FetchBegin
    \/ FetchPage
    \/ StartupInstall
    \/ StartupUnlock
    \/ \E w \in Workers : AnalyzeNoIP(w)
    \/ \E w \in Workers : getCache(w)
    \/ \E w \in Workers : get(w)
    \/ \E w \in Workers : find(w)
    \/ \E w \in Workers : setCache(w)
    \/ \E w \in Workers : ReturnNotFound(w)

SpecNoIP == Init /\ [][NextNoIP]_vars

\* the message has no top-level ip and no interface address outside loopback
NoAddress(m) ==
    /\ m.ip = ""
    /\ \A i \in DOMAIN m.addrs : HasLoopbackPrefix(SplitSlash0(m.addrs[i]))

\* C32: every candidate ip is a non-empty string, and a message with no
\* top-level ip and no interface address outside loopback has no candidate:
\* it is answered not-found with no probe of the cache and no lookup in the
\* store. Violated: the empty string of the missing ip field has not the
\* prefix 127.0.0. and becomes the first candidate.
C32_NoEmptyCandidate ==
    \A w \in Workers :
        /\ \A i \in DOMAIN ips[w] : ips[w][i] # ""
        /\ (pc[w] # "idle" /\ NoAddress(mesg[w])) =>
             /\ ips[w] = <<>>
             /\ pc[w] \in {"notfound", "returned"}
             /\ probed[w] = NilCache

(***************************************************************************)
(* Properties of needToUpdate on equal numbers.                            *)
(***************************************************************************)
\* the candidate field k is a tolerance field whose candidate and current
\* values are numbers of any representation, and the same number
SameNumber(k) ==
    /\ k \in ToleranceKeys
    /\ IsNumber(src[k])
    /\ IsNumber(InstGet(toCompare, k))
    /\ src[k].v = InstGet(toCompare, k).v

\* C33: a tolerance field whose candidate is numerically equal to the current
\* value never triggers an update, zero against zero and a uint64 against an
\* int64 included: when needToUpdate returns true, a field that is not such
\* a field made it so. Violated: for two zeros of different types rangeVal
\* is 0 and `-rangeVal < diff && diff < rangeVal` is false for diff = 0.
C33_EqualNumbersUnchanged ==
    (npc = "returned" /\ changed) =>
        \E k \in DOMAIN src :
            /\ ~SameNumber(k)
            /\ FieldChanged(k, src[k], InstGet(toCompare, k), changeRangePercent)

(***************************************************************************)
(* The handlers of the process instance relations (package service).       *)
(* A path parameter is the sequence of its characters.                     *)
(***************************************************************************)
\* everything the collector owns: no handler of the service layer touches it
hostsnapVars ==
    <<db, insts, cacheVars, refreshVars, workerVars, detectVars, pipeVars, limiterVars, pending>>

\* the digits of 1<<63 - 1, the largest int64
MaxInt64Digits ==
    <<"9", "2", "2", "3", "3", "7", "2", "0", "3", "6", "8", "5", "4", "7", "7", "5", "8", "0", "7">>

\* digits without their leading zeros, a single 0 for zero
RECURSIVE StripZeros(_)
StripZeros(ds) == IF Len(ds) > 1 /\ Head(ds) = "0" THEN StripZeros(Tail(ds)) ELSE ds

\* a < b for two sequences of digits of one length
RECURSIVE DigitsLess(_, _)
DigitsLess(a, b) ==
    IF a = <<>> THEN FALSE
    ELSE IF DigitVal(Head(a)) # DigitVal(Head(b)) THEN DigitVal(Head(a)) < DigitVal(Head(b))
    ELSE DigitsLess(Tail(a), Tail(b))

\* the magnitude written by the digits mag exceeds limit (MaxInt64Digits, or
\* one more for a negative number)
ExceedsInt64(mag, neg) ==
    \/ Len(mag) > Len(MaxInt64Digits)
    \/ /\ Len(mag) = Len(MaxInt64Digits)
       /\ DigitsLess(MaxInt64Digits, mag)
       /\ ~(neg /\ SubSeq(mag, 1, 18) = SubSeq(MaxInt64Digits, 1, 18) /\ mag[19] = "8")

\* strconv.ParseInt(s, 10, 64): <<ok, value>>, the value as its sign and the
\* digits of its magnitude. An optional sign and at least one digit, nothing
\* else; a magnitude outside int64 is a range error.
ParseInt64(cs) ==
    LET signed == cs # <<>> /\ Head(cs) \in {"+", "-"}
        ds == IF signed THEN Tail(cs) ELSE cs
        neg == signed /\ Head(cs) = "-"
        mag == StripZeros(ds)
    IN  IF ds = <<>> \/ \E i \in DOMAIN ds : ~IsDigit(ds[i]) THEN <<FALSE, [neg |-> FALSE, mag |-> <<"0">>]>>
        ELSE IF ExceedsInt64(mag, neg) THEN <<FALSE, [neg |-> FALSE, mag |-> <<"0">>]>>
        ELSE <<TRUE, [neg |-> neg /\ mag # <<"0">>, mag |-> mag]>>

\* params.Error.Errorf(code, args) and the nil error
CCError(code, arg) == [code |-> code, arg |-> arg]
NoError == [code |-> "nil", arg |-> ""]

\* what a core operation answers: a result, or an error of the core
CoreAnswers ==
    { [result |-> "relation", err |-> NoError],
      [result |-> "nil", err |-> CCError("CCErrCommDBSelectFailed", "")],
      [result |-> "nil", err |-> CCError("CCErrCommNotFound", "")] }

\* path parameters bk_process_id that are base-10 int64 numbers
ValidProcIDs ==
    { <<"0">>, <<"7">>, <<"-", "7">>, <<"+", "7">>, <<"0", "7">>, MaxInt64Digits,
      <<"-">> \o SubSeq(MaxInt64Digits, 1, 18) \o <<"8">> }

\* path parameters that are not: the missing parameter, text, a bare sign, a
\* blank, and the first number past int64
InvalidProcIDs ==
    { <<>>, <<"a">>, <<"7", "a">>, <<"-">>, <<" ", "7">>, <<"7", ".", "0">>,
      SubSeq(MaxInt64Digits, 1, 18) \o <<"8">> }

\* the requests: the handler, the path parameter, whether the body decodes
\* into the handler's structure, and the bk_biz_id the body decodes to
Requests ==
    [handler : {"GetProcessInstanceRelation", "ListProcessInstanceRelation",
                "UpdateProcessInstanceRelation"},
     procID : ValidProcIDs \cup InvalidProcIDs,
     decodes : BOOLEAN,
     bizID : {0, 2},
     at : {"received"}]

\* the handler returns without a call of the core operation
Reject(err) ==
    svc' = [handler |-> svc.handler, procID |-> svc.procID, decodes |-> svc.decodes,
            bizID |-> svc.bizID, at |-> "returned", calls |-> <<>>,
            result |-> "nil", err |-> err]

\* result, err := s.core.ProcessOperation().Op(params, arg); the handler
\* returns nil and err when err != nil, result and nil otherwise
CallCore(op, arg) ==
    \E ans \in CoreAnswers :
        svc' = [handler |-> svc.handler, procID |-> svc.procID, decodes |-> svc.decodes,
                bizID |-> svc.bizID, at |-> "returned",
                calls |-> <<[op |-> op, arg |-> arg, ans |-> ans]>>,
                result |-> IF ans.err # NoError THEN "nil" ELSE ans.result,
                err |-> IF ans.err # NoError THEN ans.err ELSE NoError]

InitService == db = <<>> /\ InitCache /\ InitWorkers /\ InitDetect
               /\ tele = [w \in Workers |-> NoTelemetry] /\ Constructed(NoConfig)
               /\ PipelineIdle /\ svc \in Requests

GetProcessInstanceRelation ==
    /\ svc.at = "received"
    /\ svc.handler = "GetProcessInstanceRelation"
    /\ IF Len(svc.procID) = 0
       THEN Reject(CCError("CCErrCommParamsInvalid", "bk_process_id"))
       ELSE IF ~ParseInt64(svc.procID)[1]
       THEN Reject(CCError("CCErrCommParamsInvalid", "bk_process_id"))
       ELSE CallCore("GetProcessInstanceRelation", ParseInt64(svc.procID)[2])
    /\ UNCHANGED hostsnapVars

\* ListProcessInstanceRelation with the bug of leaving the business id unchecked
ListProcessInstanceRelationAnyBiz ==
    /\ svc.at = "received"
    /\ svc.handler = "ListProcessInstanceRelation"
    /\ IF ~svc.decodes
       THEN Reject(CCError("CCErrCommHTTPReadBodyFailed", ""))
       ELSE CallCore("ListProcessInstanceRelation", svc.bizID)
    /\ UNCHANGED hostsnapVars

ListProcessInstanceRelation ==
    /\ svc.at = "received"
    /\ svc.handler = "ListProcessInstanceRelation"
    /\ IF ~svc.decodes
       THEN Reject(CCError("CCErrCommHTTPReadBodyFailed", ""))
       ELSE IF svc.bizID = 0
       THEN Reject(CCError("CCErrCommParamsInvalid", "bk_biz_id"))
       ELSE CallCore("ListProcessInstanceRelation", svc.bizID)
    /\ UNCHANGED hostsnapVars

UpdateProcessInstanceRelation ==
    /\ svc.at = "received"
    /\ svc.handler = "UpdateProcessInstanceRelation"
    /\ IF Len(svc.procID) = 0
       THEN Reject(CCError("CCErrCommParamsInvalid", "bk_process_id"))
       ELSE IF ~ParseInt64(svc.procID)[1]
       THEN Reject(CCError("CCErrCommParamsInvalid", "bk_process_id"))
       ELSE IF ~svc.decodes
       THEN Reject(CCError("CCErrCommJSONUnmarshalFailed", ""))
       ELSE CallCore("UpdateProcessInstanceRelation", ParseInt64(svc.procID)[2])
    /\ UNCHANGED hostsnapVars

NextService ==
    \/ GetProcessInstanceRelation
    \/ ListProcessInstanceRelation
    \/ UpdateProcessInstanceRelation

SpecService == InitService /\ [][NextService]_vars

\* the handler has returned what its one call of the core operation answered
PassedThrough ==
    /\ Len(svc.calls) = 1
    /\ svc.calls[1].op = svc.handler
    /\ svc.calls[1].ans.err = NoError => svc.result = svc.calls[1].ans.result /\ svc.err = NoError
    /\ svc.calls[1].ans.err # NoError => svc.err = svc.calls[1].ans.err /\ svc.result = "nil"

\* C34: GetProcessInstanceRelation and UpdateProcessInstanceRelation answer a
\* path parameter bk_process_id that is empty or not a base-10 int64 with the
\* params-invalid error and no call of the core operation, and
\* ListProcessInstanceRelation does so for a body that decodes to bk_biz_id 0;
\* a request that passes validation and decoding makes one call of the core
\* operation and returns its result, or its error, as it is.
C34_ValidateThenPassThrough ==
    svc.at = "returned" =>
        /\ (svc.handler # "ListProcessInstanceRelation" /\ svc.procID \in InvalidProcIDs) =>
             /\ svc.err = CCError("CCErrCommParamsInvalid", "bk_process_id")
             /\ svc.result = "nil"
             /\ svc.calls = <<>>
        /\ (svc.handler = "ListProcessInstanceRelation" /\ svc.decodes /\ svc.bizID = 0) =>
             /\ svc.err = CCError("CCErrCommParamsInvalid", "bk_biz_id")
             /\ svc.result = "nil"
             /\ svc.calls = <<>>
        /\ (svc.handler = "GetProcessInstanceRelation" /\ svc.procID \in ValidProcIDs) =>
             PassedThrough
        /\ (svc.handler = "UpdateProcessInstanceRelation" /\ svc.procID \in ValidProcIDs
            /\ svc.decodes) => PassedThrough
        /\ (svc.handler = "ListProcessInstanceRelation" /\ svc.decodes /\ svc.bizID # 0) =>
             PassedThrough

\* C34 witness: an update of the relation of the process -9223372036854775808
\* has returned the error of its one call of the core operation
C34_Witness ==
    /\ svc.at = "returned"
    /\ svc.handler = "UpdateProcessInstanceRelation"
    /\ svc.procID = <<"-">> \o SubSeq(MaxInt64Digits, 1, 18) \o <<"8">>
    /\ Len(svc.calls) = 1
    /\ svc.calls[1].arg = [neg |-> TRUE, mag |-> SubSeq(MaxInt64Digits, 1, 18) \o <<"8">>]
    /\ svc.err = CCError("CCErrCommNotFound", "")

(***************************************************************************)
(* getUsernameMapWithPropertyList and getUsernameFromEsb (web server).     *)
(***************************************************************************)
\* a map[string]interface{} held in an interface{}
MapVal(f) == [t |-> "map", v |-> 0, s |-> "", m |-> f]

\* common.BKInnerObjIDHost
BKInnerObjIDHost == "host"

\* the fields of instances: an operator, an operator and a backup, no user
\* field, an empty operator, a null operator, and an operator that is a number
UserFields ==
    { [operator |-> Str("alice")],
      [operator |-> Str("alice"), bk_bak_operator |-> Str("bob")],
      EmptyMap,
      [operator |-> Str("")],
      [operator |-> NilVal],
      [operator |-> I64(5)] }

\* the instance infos of an object: the fields themselves, and for the host
\* model the fields under the key host; or a host info whose host entry is
\* no map, or is missing
Infos(objID) ==
    IF objID = BKInnerObjIDHost
    THEN {[host |-> MapVal(f)] : f \in UserFields} \cup {[host |-> Str("x")], EmptyMap}
    ELSE UserFields

\* the infoList arguments: no instance, one, or the two-user instance
\* followed by another
InfoLists(objID) ==
    {<<>>} \cup {<<i>> : i \in Infos(objID)}
           \cup {<<i, j>> : i \in {x \in Infos(objID) : x \notin {EmptyMap}}, j \in Infos(objID)}

\* what ReadModelAttr answers: a transport error, Result = false, or the
\* property ids of the user attributes of the object
AttrAnswers ==
    { [res |-> "err", info |-> <<>>], [res |-> "false", info |-> <<>>],
      [res |-> "ok", info |-> <<>>], [res |-> "ok", info |-> <<"operator">>],
      [res |-> "ok", info |-> <<"operator", "bk_bak_operator">>] }

\* util.RemoveDuplicatesAndEmpty: the first occurrence of every non-empty
\* string, in order
RECURSIVE RemoveDuplicatesAndEmpty(_)
RemoveDuplicatesAndEmpty(list) ==
    IF list = <<>> THEN <<>>
    ELSE LET init == RemoveDuplicatesAndEmpty(SubSeq(list, 1, Len(list) - 1))
             last == list[Len(list)]
         IN  IF last = "" \/ last \in Range(init) THEN init ELSE Append(init, last)

\* the inner loop, `for _, item := range attrRsp.Data.Info`, over one info
RECURSIVE CollectItems(_, _, _)
CollectItems(info, items, acc) ==
    IF items = <<>> \/ ~acc.ok THEN acc
    ELSE LET item == Head(items)
             withProp == [acc EXCEPT !.props = Append(@, item)]
             value == InstGet(info, item)
         IN  IF value.t = "nil" THEN CollectItems(info, Tail(items), withProp)
             ELSE IF value.t # "string" THEN [withProp EXCEPT !.ok = FALSE]
             ELSE CollectItems(info, Tail(items), [withProp EXCEPT !.users = Append(@, value.s)])

\* the outer loop, `for _, info := range infoList`: for the host model the
\* info is first replaced by info["host"].(map[string]interface{})
RECURSIVE CollectInfos(_, _, _, _)
CollectInfos(objID, infoList, items, acc) ==
    IF infoList = <<>> \/ ~acc.ok THEN acc
    ELSE LET info == Head(infoList)
             inner == IF objID = BKInnerObjIDHost THEN InstGet(info, BKInnerObjIDHost) ELSE MapVal(info)
         IN  IF inner.t # "map" THEN [acc EXCEPT !.ok = FALSE]
             ELSE CollectInfos(objID, Tail(infoList), items, CollectItems(inner.m, items, acc))

\* mockUserList: the two users of the skip-login mode
AdminData == <<[EnName |-> "admin", CnName |-> "admin"], [EnName |-> "Daniel-Wu", CnName |-> "Wu"]>>

\* what user.GetUserList answers: an error, nobody, or alice
UserListAnswers ==
    { [res |-> "err", users |-> <<>>], [res |-> "ok", users |-> <<>>],
      [res |-> "ok", users |-> <<[EnName |-> "alice", CnName |-> "Alice"]>>] }

\* usernameMap[userInfo.EnName] = fmt.Sprintf("%s(%s)", EnName, CnName)
RECURSIVE UsernameMapOf(_)
UsernameMapOf(users) ==
    IF users = <<>> THEN EmptyMap
    ELSE MapSet(UsernameMapOf(SubSeq(users, 1, Len(users) - 1)), users[Len(users)].EnName,
                users[Len(users)].EnName \o "(" \o users[Len(users)].CnName \o ")")

\* a map[string]string, and the nil map
SomeMap(f) == [isnil |-> FALSE, m |-> f]
NilMap == [isnil |-> TRUE, m |-> EmptyMap]

InitUsername ==
    /\ db = <<>> /\ InitCache /\ InitWorkers /\ InitDetect
    /\ tele = [w \in Workers |-> NoTelemetry] /\ Constructed(NoConfig)
    /\ PipelineIdle
    /\ \E objID \in {BKInnerObjIDHost, "set"} : \E infoList \in InfoLists(objID) :
         svc = [handler |-> "getUsernameMapWithPropertyList", at |-> "received", objID |-> objID,
                infoList |-> infoList, calls |-> <<>>, userList |-> <<>>, propertyList |-> <<>>,
                usernameMap |-> NilMap, err |-> "nil"]

\* getUsernameMapWithPropertyList up to its call of getUsernameFromEsb. On an
\* answer with Result = false the code returns err, which is nil there.
ReadModelAttr ==
    /\ svc.at = "received"
    /\ \E ans \in AttrAnswers :
         LET called == [svc EXCEPT !.calls = Append(@, [call |-> "ReadModelAttr", res |-> ans.res, info |-> ans.info])]
             acc == CollectInfos(svc.objID, svc.infoList, ans.info,
                                 [ok |-> TRUE, users |-> <<>>, props |-> <<>>])
         IN  IF ans.res = "err"
             THEN svc' = [called EXCEPT !.at = "returned", !.err = "ReadModelAttr: http do error"]
             ELSE IF ans.res = "false"
             THEN svc' = [called EXCEPT !.at = "returned", !.err = "nil"]
             ELSE IF ~acc.ok
             THEN svc' = [called EXCEPT !.at = "returned", !.err = "failed to cast instance info"]
             ELSE svc' = [called EXCEPT !.at = "getUsernameFromEsb",
                                        !.propertyList = RemoveDuplicatesAndEmpty(acc.props),
                                        !.userList = RemoveDuplicatesAndEmpty(acc.users)]
    /\ UNCHANGED hostsnapVars

\* getUsernameFromEsb(c, userList) and the return of
\* getUsernameMapWithPropertyList
getUsernameFromEsb ==
    /\ svc.at = "getUsernameFromEsb"
    /\ IF svc.userList # <<>>
       THEN \E mock \in BOOLEAN :
              IF mock
              THEN svc' = [svc EXCEPT !.at = "returned", !.usernameMap = SomeMap(UsernameMapOf(AdminData))]
              ELSE \E ans \in UserListAnswers :
                     LET called == [svc EXCEPT !.calls = Append(@, [call |-> "GetUserList", res |-> ans.res, info |-> <<>>])]
                     IN  IF ans.res = "err"
                         THEN svc' = [called EXCEPT !.at = "returned", !.propertyList = <<>>,
                                                    !.err = "GetUserList: error"]
                         ELSE svc' = [called EXCEPT !.at = "returned",
                                                    !.usernameMap = SomeMap(UsernameMapOf(ans.users))]
       ELSE svc' = [svc EXCEPT !.at = "returned", !.usernameMap = SomeMap(EmptyMap)]
    /\ UNCHANGED hostsnapVars

NextUsername == ReadModelAttr \/ getUsernameFromEsb

SpecUsername == InitUsername /\ [][NextUsername]_vars

\* some info of the list has not the shape the loop expects, given the
\* property ids the attribute lookup answered
UnexpectedShape(items) ==
    ~CollectInfos(svc.objID, svc.infoList, items, [ok |-> TRUE, users |-> <<>>, props |-> <<>>]).ok

\* C35: getUsernameMapWithPropertyList returns a non-nil error when the
\* attribute lookup fails or answers with Result = false and when an instance
\* info has an unexpected shape, never a nil map with a nil error, and calls
\* the user directory only after a successful attribute lookup. Violated: on
\* Result = false it returns the nil err of the call that succeeded.
C35_ErrorOrMap ==
    svc.at = "returned" =>
        /\ svc.calls[1].call = "ReadModelAttr"
        /\ svc.calls[1].res # "ok" => svc.err # "nil"
        /\ (svc.calls[1].res = "ok" /\ UnexpectedShape(svc.calls[1].info)) => svc.err # "nil"
        /\ ~(svc.usernameMap.isnil /\ svc.err = "nil")
        /\ \A i \in DOMAIN svc.calls :
             svc.calls[i].call = "GetUserList" => i = 2 /\ svc.calls[1].res = "ok"

====
